---- MODULE Spec2Model ----
(***************************************************************************)
(* Keebie (src/keebie.py): a model of the daemon coordinator (PID file,    *)
(* pause / resume / stop signalling between the looping daemon and the     *)
(* short-lived companion invocations), of the device registry, and of the  *)
(* key ledger / macro device pipeline.                                     *)
(*                                                                         *)
(* Processes are keebie invocations.  Every step of a process is one       *)
(* action; a signal handler runs as one action of the process it           *)
(* interrupts, at any point where the Python interpreter can run it.       *)
(***************************************************************************)
EXTENDS Integers, Sequences, FiniteSets, TLC

(***************************************************************************)
(* Bounds of the model.                                                    *)
(***************************************************************************)
\* foreground macro commands the daemons execute in one behaviour
MaxCmds == 1

(***************************************************************************)
(* The processes, the devices and the values of the PID file.              *)
(***************************************************************************)
Daemons == {"d1", "d2"}
Companions == {"c1", "c2"}
Procs == Daemons \cup Companions
\* the pid of a process that died before the behaviour starts
OldPid == "old"
\* the PID file does not exist
NoPid == "nopid"
Devices == {"kbd1", "kbd2"}
\* os.listdir(deviceDir) order of the device json files
DeviceOrder == <<"kbd1", "kbd2">>
\* the modes of a companion invocation (command line flags)
ShellModes == {"add", "new", "remove"}
CompanionModes == ShellModes \cup {"pause", "resume", "stop"}
\* positions of the daemon at which SIGUSR1 / SIGUSR2 are bound to pause / resume
BoundPcs == {"startSleep", "loop", "read", "inCommand"}

VARIABLES
    pidFile,            \* content of running.pid: a pid, or NoPid
    deviceDir,          \* the device json files in deviceDir
    holders,            \* kernel: holders[d] = processes holding EVIOCGRAB on d
    status,             \* per process: idle, run, exit0, crash, killed
    mode,               \* per process: daemon or the companion's flag
    arg,                \* per companion: the device named by --remove / --new
    pc,                 \* per process: position in main()
    devicesAreGrabbed,  \* per process: global devicesAreGrabbed
    savedPid,           \* per process: global savedPid
    paused,             \* per process: global paused
    havePaused,         \* per process: global havePaused
    macroDeviceList,    \* per process: names of the macroDevice objects, in list order
    handle,             \* per process and device: macroDevice.device is none, open,
                        \* closed, or gone (open on a device that was unplugged)
    sig,                \* per process: pending signals whose Python handler has not run
    readPid,            \* per process: the pid getPid() returned to checkPid()
    idx,                \* per process: index of readDevices' loop over macroDeviceList
    fault,              \* per process: the call that raised the uncaught exception
    cmds,               \* number of foreground commands executed so far
    target,             \* per companion: the pid its sendPause signalled
    pauseFrom,          \* per daemon: senders of the pending SIGUSR1
    resumeFrom,         \* per daemon: senders of the pending SIGUSR2
    pausedBy,           \* per daemon: senders of the pause that put it in Paused
    sentPause,          \* per companion: pause signals it delivered
    sentResume          \* per companion: resume signals it delivered

coordVars == << pidFile, deviceDir, holders, status, mode, arg, pc, devicesAreGrabbed,
           savedPid, paused, havePaused, macroDeviceList, handle, sig, readPid,
           idx, fault, cmds, target, pauseFrom, resumeFrom, pausedBy,
           sentPause, sentResume >>

VARIABLES
    now,                \* time.time(), in clock ticks
    polled,             \* the main loop has read the device at the current tick
    phys,               \* the keys physically held down on the keyboard
    queue,              \* kernel: the events of the device not yet read
    ledger,             \* the keyLedger of the macroDevice
    currentLayer,       \* macroDevice.currentLayer: a layer file name
    spawned,            \* the commands passed to os.system, in order
    flushedLog,         \* every history flushHistory has queued, in order
    presses,            \* per key: number of times it was pressed
    firstDown,          \* clock at the first key press
    lastUp,             \* clock at the latest key release
    bothDown            \* all keys were physically down at the same time

VARIABLES
    settings,           \* the settings dict after getSettings()
    layers,             \* the layer files in layerDir: file name -> "leds" property
    cache,              \* macroDevice._currentLayerJson: << >> is None, or <<document>>
    leds,               \* the LEDs of the device that are lit
    capabilities,       \* the LEDs the device has (capabilities()[17]), {} if none
    rootTemplate,       \* the file /data/layers/default.json exists
    reportsScan,        \* the keyboard sends a scan code with every key transition
    error,              \* the exception that left processKeycode, or "none"
    processed,          \* the histories passed to processKeycode, in order
    draining            \* the loop of processLedger is running

VARIABLES
    pressOrder,         \* the keys physically held down, in the order of pressing
    lastDown,           \* clock at the latest key press
    peak,               \* a key was pressed since the latest release
    chordLog            \* the chords the user completed, in order

VARIABLES
    objects,            \* per device name: the state of the macroDevice object of that name
    device,             \* macroDevice.device of the macro device: none, or open
    settingsFile,       \* the file settings.json
    newMacros           \* the layer files a companion's addKey wrote newMacro to

keyboardVars == << now, polled, phys, queue, presses, firstDown, lastUp, bothDown,
                   pressOrder, lastDown, peak, chordLog >>
deviceVars == << ledger, currentLayer, spawned, flushedLog, layers, cache, leds,
                 error, processed, draining >>
configVars == << settings, capabilities, rootTemplate, reportsScan >>

registryVars == << objects, device, settingsFile, newMacros >>

ledgerVars == << keyboardVars, deviceVars, configVars, registryVars >>

vars == << coordVars, ledgerVars >>

Range(s) == { s[i] : i \in 1..Len(s) }
RemoveAt(s, i) == SubSeq(s, 1, i - 1) \o SubSeq(s, i + 1, Len(s))
NoHandles == [d \in Devices |-> "none"]
Alive(p) == p \in Procs /\ status[p] = "run"

(***************************************************************************)
(* setupMacroDevices (lines 575-612).                                      *)
(***************************************************************************)
\* lines 585-590: "for device in macroDeviceList: if device.name + '.json' not
\* in deviceJsonList: macroDeviceList.remove(device)".  The list iterator holds
\* an index i (1-based here) that advances after every element, also after one
\* that was removed from the list it iterates.
RECURSIVE removeVanished(_, _, _)
removeVanished(list, i, dir) ==
    IF i > Len(list) THEN list
    ELSE IF list[i] \notin dir
         THEN removeVanished(RemoveAt(list, i), i + 1, dir)
         ELSE removeVanished(list, i + 1, dir)

\* lines 594-612: one new macroDevice per json file that no listed device has
newMacroDeviceList(list, dir) ==
    SelectSeq(DeviceOrder, LAMBDA d : d \in dir /\ d \notin Range(list))

setupMacroDevices(list, dir) ==
    LET kept == removeVanished(list, 1, dir)
    IN  kept \o newMacroDeviceList(kept, dir)

\* the device handles after setupMacroDevices: an object dropped from the list
\* is garbage (its file is closed), a new object has device = None
handlesAfterSetup(h, list, dir) ==
    [d \in Devices |-> IF d \in Range(removeVanished(list, 1, dir)) THEN h[d] ELSE "none"]

(***************************************************************************)
(* macroDevice.grabDevice / ungrabDevice / close and their fan-out.        *)
(***************************************************************************)
\* InputDevice.grab(): EVIOCGRAB fails with EBUSY while another client holds it
grabSucceeds(p, d) == holders[d] \subseteq {p}

\* grabMacroDevices (lines 614-620): grabDevice on every listed device; a grab
\* that raises OSError is printed and the device stays open, not grabbed
holdersAfterGrab(p, list) ==
    [d \in Devices |->
        IF d \in Range(list) /\ grabSucceeds(p, d) THEN {p}
        ELSE IF d \in Range(list) THEN holders[d]
        ELSE holders[d] \ {p}]

handlesAfterGrab(h, list) ==
    [d \in Devices |-> IF d \in Range(list) THEN "open" ELSE h[d]]

\* InputDevice.ungrab() raises OSError unless the file is open and holds the grab
canUngrab(p, d) == handle[p][d] = "open" /\ p \in holders[d]
\* ungrabMacroDevices (lines 622-627) returns without an exception
ungrabAllReturns(p) == \A d \in Range(macroDeviceList[p]) : canUngrab(p, d)
\* closeDevices (lines 629-632): device.close() raises when device is None
closeAllReturns(p) == \A d \in Range(macroDeviceList[p]) : handle[p][d] # "none"

\* the kernel drops the grabs of a process whose files are closed
released(p) == [d \in Devices |-> holders[d] \ {p}]

handlesClosed(h, list) ==
    [d \in Devices |-> IF d \in Range(list) THEN "closed" ELSE h[d]]

\* the devices a process holds grabbed
grabsOf(p) == { d \in Devices : p \in holders[d] }


(***************************************************************************)
(* Process exit.  A process that exits, raises or is killed loses its      *)
(* globals; the kernel closes its files, which drops its grabs.            *)
(***************************************************************************)
ResetLocals(p) ==
    /\ pc' = [pc EXCEPT ![p] = "done"]
    /\ devicesAreGrabbed' = [devicesAreGrabbed EXCEPT ![p] = FALSE]
    /\ savedPid' = [savedPid EXCEPT ![p] = FALSE]
    /\ paused' = [paused EXCEPT ![p] = FALSE]
    /\ havePaused' = [havePaused EXCEPT ![p] = FALSE]
    /\ macroDeviceList' = [macroDeviceList EXCEPT ![p] = << >>]
    /\ handle' = [handle EXCEPT ![p] = NoHandles]
    /\ idx' = [idx EXCEPT ![p] = 0]
    /\ UNCHANGED readPid

\* an uncaught exception raised by call f: traceback, exit status 1; nothing
\* of end() runs, so the PID file stays and no resume is sent
Raise(p, f) ==
    /\ ResetLocals(p)
    /\ status' = [status EXCEPT ![p] = "crash"]
    /\ fault' = [fault EXCEPT ![p] = f]
    /\ holders' = released(p)
    /\ sig' = [sig EXCEPT ![p] = {}]
    /\ pauseFrom' = [pauseFrom EXCEPT ![p] = {}]
    /\ resumeFrom' = [resumeFrom EXCEPT ![p] = {}]
    /\ pausedBy' = [pausedBy EXCEPT ![p] = {}]
    /\ UNCHANGED << pidFile, mode, arg, cmds, target, sentPause, sentResume >>

\* checkPid (lines 1406-1422) on the PID file as it is: the pid is recorded and alive
pidIsLive == pidFile # NoPid /\ Alive(pidFile)
\* checkPid raises ProcessLookupError, after removePid() removed the file
pidIsStale == pidFile # NoPid /\ ~Alive(pidFile)

\* a variant of endRemovesPid: end() removes the PID file whoever wrote it
endRemovesPidAlways(p) == TRUE

\* end() (lines 94-97): "if savedPid: removePid()"
endRemovesPid(p) == savedPid[p]

\* an end() that sends the resume signal with its grabs still in place
endKeepsGrabs(p) == holders

\* end (lines 88-90): ungrabMacroDevices() and closeDevices() come before
\* sendResume() (line 94), so the grabs are gone when the signal is sent
endReleases(p) == released(p)

\* end() (lines 79-100), run by p from main, from a shell or as the SIGINT
\* handler.  deviceDir is left to the calling action.
end(p) ==
    IF devicesAreGrabbed[p] /\ ~ungrabAllReturns(p)
    THEN \* ungrabMacroDevices raises OSError inside end()
         Raise(p, "ungrab")
    ELSE LET \* sendResume (lines 1454-1466), called when havePaused
             delivers == havePaused[p] /\ pidIsLive
             removes  == (havePaused[p] /\ pidIsStale) \/ endRemovesPid(p)
         IN  /\ ResetLocals(p)
             /\ status' = [status EXCEPT ![p] = "exit0"]
             /\ fault' = fault
             /\ holders' = endReleases(p)
             /\ pidFile' = IF removes THEN NoPid ELSE pidFile
             /\ sig' = [q \in Procs |->
                          IF q = p THEN {}
                          ELSE IF delivers /\ q = pidFile THEN sig[q] \cup {"USR2"}
                          ELSE sig[q]]
             /\ resumeFrom' = [q \in Procs |->
                          IF q = p THEN {}
                          ELSE IF delivers /\ q = pidFile THEN resumeFrom[q] \cup {p}
                          ELSE resumeFrom[q]]
             /\ sentResume' = [sentResume EXCEPT ![p] = IF delivers THEN @ + 1 ELSE @]
             /\ pauseFrom' = [pauseFrom EXCEPT ![p] = {}]
             /\ pausedBy' = [pausedBy EXCEPT ![p] = {}]
             /\ UNCHANGED << mode, arg, cmds, target, sentPause >>

(***************************************************************************)
(* The daemon: main() without flags (lines 1596-1608, 1681-1714).          *)
(***************************************************************************)
\* lines 1596-1608: bind SIGINT, setupMacroDevices(), getSettings()
DLaunch(p) ==
    /\ p \in Daemons
    /\ UNCHANGED ledgerVars
    /\ status[p] = "idle"
    /\ status' = [status EXCEPT ![p] = "run"]
    /\ pc' = [pc EXCEPT ![p] = "savePid"]
    /\ macroDeviceList' = [macroDeviceList EXCEPT ![p] = setupMacroDevices(<< >>, deviceDir)]
    /\ UNCHANGED << pidFile, deviceDir, holders, mode, arg, devicesAreGrabbed, savedPid,
                    paused, havePaused, handle, sig, readPid, idx, fault, cmds, target,
                    pauseFrom, resumeFrom, pausedBy, sentPause, sentResume >>

\* the variables a step inside the startup of main() leaves alone
StartupFrame ==
    UNCHANGED << deviceDir, holders, status, mode, arg, devicesAreGrabbed, paused,
                 havePaused, macroDeviceList, handle, sig, idx, fault, cmds, target,
                 pauseFrom, resumeFrom, pausedBy, sentPause, sentResume >>

\* savePid (lines 1372-1374): os.path.exists(pidPath) decides, before the file is opened
DSavePid(p) ==
    /\ Alive(p) /\ pc[p] = "savePid"
    /\ UNCHANGED ledgerVars
    /\ pc' = [pc EXCEPT ![p] = IF pidFile # NoPid THEN "checkPid" ELSE "savePidWrite"]
    /\ UNCHANGED << pidFile, savedPid, readPid >>
    /\ StartupFrame

\* savePid (lines 1376-1381): open(pidPath, "wt") creates or truncates, then writes
DSavePidWrite(p) ==
    /\ Alive(p) /\ pc[p] \in {"savePidWrite", "savePid2Write"}
    /\ UNCHANGED ledgerVars
    /\ pidFile' = p
    /\ savedPid' = [savedPid EXCEPT ![p] = TRUE]
    /\ pc' = [pc EXCEPT ![p] = "bind"]
    /\ UNCHANGED readPid
    /\ StartupFrame

\* checkPid -> getPid (lines 1396-1404, 1413): FileNotFoundError is not caught
\* by main's "except ProcessLookupError"
DGetPid(p) ==
    /\ Alive(p) /\ pc[p] = "checkPid"
    /\ UNCHANGED ledgerVars
    /\ IF pidFile = NoPid
       THEN Raise(p, "getPid") /\ UNCHANGED deviceDir
       ELSE /\ readPid' = [readPid EXCEPT ![p] = pidFile]
            /\ pc' = [pc EXCEPT ![p] = "probe"]
            /\ UNCHANGED << pidFile, savedPid >>
            /\ StartupFrame

\* checkPid (lines 1414-1422) and main (lines 1690-1698): os.kill(pid, 0); a live
\* pid: "Another instance ... exiting" and end(); a dead one: removePid(), then
\* ProcessLookupError, caught by main
DProbe(p) ==
    /\ Alive(p) /\ pc[p] = "probe"
    /\ UNCHANGED ledgerVars
    /\ IF Alive(readPid[p])
       THEN end(p) /\ UNCHANGED deviceDir
       ELSE /\ pidFile' = NoPid
            /\ savedPid' = [savedPid EXCEPT ![p] = IF pidFile # NoPid THEN FALSE ELSE @]
            /\ pc' = [pc EXCEPT ![p] = "savePid2"]
            /\ UNCHANGED readPid
            /\ StartupFrame

\* main (line 1698): the second savePid(); its FileExistsError is not caught
DSavePid2(p) ==
    /\ Alive(p) /\ pc[p] = "savePid2"
    /\ UNCHANGED ledgerVars
    /\ IF pidFile # NoPid
       THEN Raise(p, "savePid") /\ UNCHANGED deviceDir
       ELSE /\ pc' = [pc EXCEPT ![p] = "savePid2Write"]
            /\ UNCHANGED << pidFile, savedPid, readPid >>
            /\ StartupFrame

\* main (lines 1700-1703): bind SIGUSR1 to pause and SIGUSR2 to resume
DBind(p) ==
    /\ Alive(p) /\ pc[p] = "bind"
    /\ UNCHANGED ledgerVars
    /\ pc' = [pc EXCEPT ![p] = "startSleep"]
    /\ UNCHANGED << pidFile, savedPid, readPid >>
    /\ StartupFrame

\* main (lines 1705-1706): time.sleep(.5), then grabMacroDevices()
DInitialGrab(p) ==
    /\ Alive(p) /\ pc[p] = "startSleep"
    /\ UNCHANGED ledgerVars
    /\ devicesAreGrabbed' = [devicesAreGrabbed EXCEPT ![p] = TRUE]
    /\ holders' = holdersAfterGrab(p, macroDeviceList[p])
    /\ handle' = [handle EXCEPT ![p] = handlesAfterGrab(@, macroDeviceList[p])]
    /\ pc' = [pc EXCEPT ![p] = "loop"]
    /\ UNCHANGED << pidFile, deviceDir, status, mode, arg, savedPid, paused, havePaused,
                    macroDeviceList, sig, readPid, idx, fault, cmds, target,
                    pauseFrom, resumeFrom, pausedBy, sentPause, sentResume >>

\* the variables a step of the main loop leaves alone
LoopFrame ==
    UNCHANGED << pidFile, deviceDir, holders, status, mode, arg, devicesAreGrabbed,
                 savedPid, paused, havePaused, macroDeviceList, handle, sig, readPid,
                 fault, target, pauseFrom, resumeFrom, pausedBy, sentPause, sentResume >>

\* a variant of DLoop: the iteration polls without a look at the paused flag
DLoopIgnoresPause(p) ==
    /\ Alive(p) /\ pc[p] = "loop"
    /\ UNCHANGED ledgerVars
    /\ macroDeviceList[p] # << >>
    /\ pc' = [pc EXCEPT ![p] = "read"]
    /\ idx' = [idx EXCEPT ![p] = 1]
    /\ UNCHANGED cmds
    /\ UNCHANGED << pidFile, deviceDir, holders, status, mode, arg, devicesAreGrabbed,
                    savedPid, paused, havePaused, macroDeviceList, handle, sig, readPid,
                    fault, target, pauseFrom, resumeFrom, pausedBy, sentPause, sentResume >>

\* a variant of DLoop: a paused iteration clears the flag and polls
DLoopAutoResume(p) ==
    /\ Alive(p) /\ pc[p] = "loop"
    /\ UNCHANGED ledgerVars
    /\ macroDeviceList[p] # << >>
    /\ pc' = [pc EXCEPT ![p] = "read"]
    /\ idx' = [idx EXCEPT ![p] = 1]
    /\ paused' = [paused EXCEPT ![p] = FALSE]
    /\ UNCHANGED << pidFile, deviceDir, holders, status, mode, arg, devicesAreGrabbed,
                    savedPid, havePaused, macroDeviceList, handle, sig, readPid,
                    fault, cmds, target, pauseFrom, resumeFrom, pausedBy, sentPause,
                    sentResume >>

\* main (lines 1708-1714): "if not paused: readDevices()" enters the loop over
\* macroDeviceList; a paused iteration and one over no device only sleep
DLoop(p) ==
    /\ Alive(p) /\ pc[p] = "loop"
    /\ UNCHANGED ledgerVars
    /\ ~paused[p] /\ macroDeviceList[p] # << >>
    /\ pc' = [pc EXCEPT ![p] = "read"]
    /\ idx' = [idx EXCEPT ![p] = 1]
    /\ UNCHANGED cmds
    /\ LoopFrame

\* readDevices' loop (lines 659-661) after device idx[p] was read
afterRead(p) ==
    IF idx[p] >= Len(macroDeviceList[p])
    THEN pc' = [pc EXCEPT ![p] = "loop"] /\ idx' = [idx EXCEPT ![p] = 0]
    ELSE pc' = [pc EXCEPT ![p] = "read"] /\ idx' = [idx EXCEPT ![p] = @ + 1]

\* macroDevice.read (lines 424-446) of device idx[p]: self.device.read() on a
\* closed file raises OSError, which is not BlockingIOError; on an open one the
\* ledger is updated and either nothing is flushed, or a flushed history runs a
\* command with os.system (line 549), which returns when the command has ended.
\* Events reach a file only while no other client holds the grab.
DRead(p, runs) ==
    /\ Alive(p) /\ pc[p] = "read"
    /\ UNCHANGED ledgerVars
    /\ IF idx[p] > Len(macroDeviceList[p])
       THEN \* the list shrank under the loop: the iterator is exhausted
            /\ pc' = [pc EXCEPT ![p] = "loop"] /\ idx' = [idx EXCEPT ![p] = 0]
            /\ ~runs
            /\ UNCHANGED cmds
            /\ LoopFrame
       ELSE LET d == macroDeviceList[p][idx[p]]
            IN  IF handle[p][d] # "open"
                THEN ~runs /\ Raise(p, "read") /\ UNCHANGED deviceDir
                ELSE IF runs
                     THEN /\ holders[d] \subseteq {p}
                          /\ cmds < MaxCmds
                          /\ cmds' = cmds + 1
                          /\ pc' = [pc EXCEPT ![p] = "inCommand"]
                          /\ UNCHANGED idx
                          /\ LoopFrame
                     ELSE /\ afterRead(p)
                          /\ UNCHANGED cmds
                          /\ LoopFrame

\* os.system (line 549) returns
DCommandDone(p) ==
    /\ Alive(p) /\ pc[p] = "inCommand"
    /\ UNCHANGED ledgerVars
    /\ afterRead(p)
    /\ UNCHANGED cmds
    /\ LoopFrame


\* settings (lines 753-760); the loop sleeps loopDelay (0.0167 s) between two
\* polls, which is less than a clock tick
defaultSettings ==
    [multiKeyMode |-> "combination", forceBackground |-> FALSE,
     backgroundInversion |-> FALSE]
\* the values getSettings (lines 773-805) accepts from settings.json
settingsPossible ==
    [multiKeyMode : {"combination", "sequence"}, forceBackground : BOOLEAN,
     backgroundInversion : BOOLEAN]

(***************************************************************************)
(* getSettings (lines 773-805).  A value of settings.json is a JSON value: *)
(* its type and its text; a setting the document lacks has type "absent".  *)
(***************************************************************************)
\* the keys of settings, in the order of the dict (lines 753-760)
settingNames ==
    <<"multiKeyMode", "forceBackground", "backgroundInversion",
      "loopDelay", "holdThreshold", "flushTimeout">>
typedSettings == {"loopDelay", "holdThreshold", "flushTimeout"}

\* settings (lines 753-760) with the three delays, in seconds
allDefaults ==
    [multiKeyMode |-> defaultSettings.multiKeyMode,
     forceBackground |-> defaultSettings.forceBackground,
     backgroundInversion |-> defaultSettings.backgroundInversion,
     loopDelay |-> "0.0167", holdThreshold |-> "1", flushTimeout |-> "0.5"]

jsonValue(ty, text) == [type |-> ty, val |-> text]
absent == jsonValue("absent", "")

\* the settings documents: per setting a value of its domain, a value outside
\* it, or none
settingsDocs ==
    [multiKeyMode : {jsonValue("str", "combination"), jsonValue("str", "sequence"),
                     jsonValue("str", "chord"), absent},
     forceBackground : {jsonValue("bool", "true"), jsonValue("bool", "false"),
                        jsonValue("str", "yes"), absent},
     backgroundInversion : {jsonValue("bool", "true"), jsonValue("bool", "false"),
                            jsonValue("str", "yes"), absent},
     loopDelay : {jsonValue("float", "0.05"), jsonValue("str", "fast"), absent},
     holdThreshold : {jsonValue("float", "0.5"), jsonValue("int", "2"),
                      jsonValue("bool", "true"), absent},
     flushTimeout : {jsonValue("float", "0.25"), jsonValue("str", "soon"), absent}]

\* the document without any setting: {}
emptySettingsDoc == [n \in Range(settingNames) |-> absent]

\* settings.json as a file: a document, or text that is not JSON
settingsFiles ==
    {[malformed |-> FALSE, doc |-> d] : d \in settingsDocs}
    \cup {[malformed |-> TRUE, doc |-> emptySettingsDoc]}

\* readJson (lines 684-695) of settings.json: {} when json.load raises
readSettingsJson(file) == IF file.malformed THEN emptySettingsDoc ELSE file.doc

\* the Python value of a JSON value that passed the test of its setting
pythonValue(setting, v) ==
    IF v.type = "bool" THEN v.val = "true" ELSE v.val

\* lines 785-795: type(value) in [type, float, int], or value in the list of
\* settingsPossible
passesTest(setting, v) ==
    IF setting \in typedSettings
    THEN v.type \in {"float", "int"}
    ELSE IF setting = "multiKeyMode"
    THEN v.type = "str" /\ v.val \in {"combination", "sequence"}
    ELSE v.type = "bool"

\* a getSettings that skips a setting the document lacks
getSettingsSkipsAbsent(names, doc, current) ==
    [settings |-> [n \in DOMAIN current |->
                      IF doc[n].type # "absent" /\ passesTest(n, doc[n])
                      THEN pythonValue(n, doc[n]) ELSE current[n]],
     error |-> "none"]

\* the loop of getSettings (lines 783-801): settingsFile[setting] raises
\* KeyError for a setting the document lacks
RECURSIVE getSettingsLoop(_, _, _)
getSettingsLoop(names, doc, current) ==
    IF names = << >> THEN [settings |-> current, error |-> "none"]
    ELSE LET setting == Head(names)
         IN  IF doc[setting].type = "absent"
             THEN [settings |-> current, error |-> "KeyError"]
             ELSE IF passesTest(setting, doc[setting])
             THEN getSettingsLoop(Tail(names), doc,
                      [current EXCEPT ![setting] = pythonValue(setting, doc[setting])])
             ELSE getSettingsLoop(Tail(names), doc, current)

\* getSettings (lines 773-805): the loop runs over the keys of settings
getSettings(file, current) ==
    getSettingsLoop(SelectSeq(settingNames, LAMBDA n : n \in DOMAIN current),
                    readSettingsJson(file), current)

\* the complete document that holds the settings st
fileFor(st) ==
    [malformed |-> FALSE,
     doc |-> [multiKeyMode |-> jsonValue("str", st.multiKeyMode),
              forceBackground |->
                  jsonValue("bool", IF st.forceBackground THEN "true" ELSE "false"),
              backgroundInversion |->
                  jsonValue("bool", IF st.backgroundInversion THEN "true" ELSE "false"),
              loopDelay |-> jsonValue("float", "0.0167"),
              holdThreshold |-> jsonValue("int", "1"),
              flushTimeout |-> jsonValue("float", "0.5")]]
\* getSettings has read the settings from a complete document
SettingsLoaded == settingsFile = fileFor(settings)

(***************************************************************************)
(* Signals.  os.kill adds the signal to the pending set of the target.  A  *)
(* Python handler runs in the main thread as soon as the interpreter gets   *)
(* control: at once while it sleeps or polls, and only after os.system has  *)
(* returned while it executes a command.                                    *)
(***************************************************************************)
\* os.kill(pid, s) by sender c: standard signals do not queue; system() ignores
\* SIGINT in the calling process while the command runs
sigAfterKill(t, s) ==
    [q \in Procs |->
        IF q = t /\ ~(s = "INT" /\ pc[t] = "inCommand") THEN sig[q] \cup {s} ELSE sig[q]]

CanHandle(p, s) == Alive(p) /\ s \in sig[p] /\ pc[p] # "inCommand"

\* SIGUSR1 / SIGUSR2 before main bound them (line 1701): the default action
\* terminates the process
DDefaultKill(p) ==
    /\ Alive(p) /\ pc[p] \notin BoundPcs
    /\ UNCHANGED ledgerVars
    /\ sig[p] \cap {"USR1", "USR2"} # {}
    /\ ResetLocals(p)
    /\ status' = [status EXCEPT ![p] = "killed"]
    /\ holders' = released(p)
    /\ sig' = [sig EXCEPT ![p] = {}]
    /\ pauseFrom' = [pauseFrom EXCEPT ![p] = {}]
    /\ resumeFrom' = [resumeFrom EXCEPT ![p] = {}]
    /\ pausedBy' = [pausedBy EXCEPT ![p] = {}]
    /\ UNCHANGED << pidFile, deviceDir, mode, arg, fault, cmds, target, sentPause, sentResume >>

\* signal_handler (lines 76-77): end()
DHandleInt(p) ==
    /\ CanHandle(p, "INT")
    /\ UNCHANGED ledgerVars
    /\ end(p)
    /\ UNCHANGED deviceDir

\* pause (lines 1468-1476): paused = True, ungrabMacroDevices(), closeDevices()
pause(p) ==
    IF ~ungrabAllReturns(p)
    THEN Raise(p, "ungrab") /\ UNCHANGED deviceDir
    ELSE IF ~closeAllReturns(p)
    THEN Raise(p, "close") /\ UNCHANGED deviceDir
    ELSE /\ paused' = [paused EXCEPT ![p] = TRUE]
         /\ devicesAreGrabbed' = [devicesAreGrabbed EXCEPT ![p] = FALSE]
         /\ holders' = released(p)
         /\ handle' = [handle EXCEPT ![p] = handlesClosed(@, macroDeviceList[p])]
         /\ sig' = [sig EXCEPT ![p] = @ \ {"USR1"}]
         /\ pausedBy' = [pausedBy EXCEPT ![p] = @ \cup pauseFrom[p]]
         /\ pauseFrom' = [pauseFrom EXCEPT ![p] = {}]
         /\ UNCHANGED << pidFile, deviceDir, status, mode, arg, pc, savedPid, havePaused,
                         macroDeviceList, readPid, idx, fault, cmds, target,
                         resumeFrom, sentPause, sentResume >>

DHandlePause(p) ==
    /\ CanHandle(p, "USR1") /\ pc[p] \in BoundPcs
    /\ UNCHANGED ledgerVars
    /\ pause(p)

\* resume (lines 1478-1492) after getSettings(): if paused: setupMacroDevices()
\* and grabMacroDevices(); paused = False
resume(p) ==
    LET list == IF paused[p] THEN setupMacroDevices(macroDeviceList[p], deviceDir)
                ELSE macroDeviceList[p]
    IN  /\ macroDeviceList' = [macroDeviceList EXCEPT ![p] = list]
        /\ handle' = [handle EXCEPT ![p] =
                IF paused[p]
                THEN handlesAfterGrab(handlesAfterSetup(@, macroDeviceList[p], deviceDir), list)
                ELSE @]
        /\ holders' = IF paused[p] THEN holdersAfterGrab(p, list) ELSE holders
        /\ devicesAreGrabbed' = [devicesAreGrabbed EXCEPT ![p] = IF paused[p] THEN TRUE ELSE @]
        /\ paused' = [paused EXCEPT ![p] = FALSE]
        /\ sig' = [sig EXCEPT ![p] = @ \ {"USR2"}]
        /\ resumeFrom' = [resumeFrom EXCEPT ![p] = {}]
        /\ pausedBy' = [pausedBy EXCEPT ![p] = {}]
        /\ UNCHANGED << pidFile, deviceDir, status, mode, arg, pc, savedPid, havePaused,
                        readPid, idx, fault, cmds, target, pauseFrom, sentPause, sentResume >>

\* the handler of SIGUSR2: an exception of getSettings ends the daemon before
\* the handler looks at the paused flag
DHandleResume(p) ==
    /\ CanHandle(p, "USR2") /\ pc[p] \in BoundPcs
    /\ UNCHANGED << keyboardVars, deviceVars, registryVars, capabilities,
                    rootTemplate, reportsScan >>
    /\ \E r \in {getSettings(settingsFile, settings)} :
          /\ settings' = r.settings
          /\ IF r.error = "none"
             THEN resume(p)
             ELSE Raise(p, "settings") /\ UNCHANGED deviceDir

(***************************************************************************)
(* Companion invocations: main() with a flag (lines 1596-1678).            *)
(***************************************************************************)
\* lines 1596-1608, then the branch of the flag; a is the device --remove names
\* ("noname": the flag was given without a name) or --new detects
CLaunch(c, m, a) ==
    /\ c \in Companions
    /\ UNCHANGED ledgerVars
    /\ status[c] = "idle"
    \* the companions are interchangeable: c2 names the one started second
    /\ (c = "c2" => status["c1"] # "idle")
    /\ m \in CompanionModes
    /\ a \in CASE m = "remove" -> deviceDir \cup {"noname"}
               [] m = "new"    -> Devices \ deviceDir
               [] OTHER        -> {"noname"}
    /\ status' = [status EXCEPT ![c] = "run"]
    /\ mode' = [mode EXCEPT ![c] = m]
    /\ arg' = [arg EXCEPT ![c] = a]
    /\ macroDeviceList' = [macroDeviceList EXCEPT ![c] = setupMacroDevices(<< >>, deviceDir)]
    /\ pc' = [pc EXCEPT ![c] = CASE m = "resume" -> "sendResume"
                                 [] m = "stop"   -> "sendStop"
                                 [] OTHER        -> "sendPause"]
    /\ UNCHANGED << pidFile, deviceDir, holders, devicesAreGrabbed, savedPid, paused,
                    havePaused, handle, sig, readPid, idx, fault, cmds, target,
                    pauseFrom, resumeFrom, pausedBy, sentPause, sentResume >>

\* the process returns from main() without end(): exit status 0
returnFromMain(c) ==
    /\ ResetLocals(c)
    /\ status' = [status EXCEPT ![c] = "exit0"]
    /\ holders' = released(c)

\* main after sendPause(): --add (lines 1626-1628) calls grabMacroDevices(), --new
\* and --remove (lines 1652-1661) enter their shell
afterSendPause(c) == IF mode[c] = "add" THEN "postPause" ELSE "shell"

\* sendPause (lines 1436-1452) up to os.kill; --pause (lines 1663-1665) passes
\* waitSafeTime 0 and returns from main
CSendPause(c) ==
    /\ Alive(c) /\ pc[c] = "sendPause"
    /\ UNCHANGED ledgerVars
    /\ pidFile' = IF pidIsStale THEN NoPid ELSE pidFile
    /\ sig' = IF pidIsLive THEN sigAfterKill(pidFile, "USR1") ELSE sig
    /\ pauseFrom' = IF pidIsLive THEN [pauseFrom EXCEPT ![pidFile] = @ \cup {c}] ELSE pauseFrom
    /\ sentPause' = IF pidIsLive THEN [sentPause EXCEPT ![c] = @ + 1] ELSE sentPause
    /\ target' = IF pidIsLive THEN [target EXCEPT ![c] = pidFile] ELSE target
    /\ IF mode[c] = "pause"
       THEN returnFromMain(c)
       ELSE /\ havePaused' = [havePaused EXCEPT ![c] = IF pidIsLive THEN TRUE ELSE @]
            \* the except clause skips time.sleep when checkPid raised
            /\ pc' = [pc EXCEPT ![c] = IF pidIsLive THEN "waitSafe" ELSE afterSendPause(c)]
            /\ UNCHANGED << holders, status, devicesAreGrabbed, savedPid, paused,
                            macroDeviceList, handle, readPid, idx >>
    /\ UNCHANGED << deviceDir, mode, arg, fault, cmds, resumeFrom, pausedBy, sentResume >>

\* the daemon signalled by c has run its pause handler, or cannot run it before
\* it returns from os.system
pauseTakenOrBlocked(c) ==
    LET t == target[c]
    IN  ~(Alive(t) /\ "USR1" \in sig[t] /\ pc[t] # "inCommand")

\* sendPause (lines 1444-1448): time.sleep(3 * loopDelay) ends.  The daemon's
\* sleep is loopDelay and a signal interrupts it, so a daemon that is not inside
\* os.system has run its handler by then.
CPauseReturn(c) ==
    /\ Alive(c) /\ pc[c] = "waitSafe"
    /\ UNCHANGED ledgerVars
    /\ pauseTakenOrBlocked(c)
    /\ pc' = [pc EXCEPT ![c] = afterSendPause(c)]
    /\ UNCHANGED << pidFile, deviceDir, holders, status, mode, arg, devicesAreGrabbed,
                    savedPid, paused, havePaused, macroDeviceList, handle, sig, readPid,
                    idx, fault, cmds, target, pauseFrom, resumeFrom, pausedBy,
                    sentPause, sentResume >>

\* main (lines 1626-1628): grabMacroDevices() after sendPause()
CGrab(c) ==
    /\ Alive(c) /\ pc[c] = "postPause"
    /\ UNCHANGED ledgerVars
    /\ devicesAreGrabbed' = [devicesAreGrabbed EXCEPT ![c] = TRUE]
    /\ holders' = holdersAfterGrab(c, macroDeviceList[c])
    /\ handle' = [handle EXCEPT ![c] = handlesAfterGrab(@, macroDeviceList[c])]
    /\ pc' = [pc EXCEPT ![c] = "shell"]
    /\ UNCHANGED << pidFile, deviceDir, status, mode, arg, savedPid, paused, havePaused,
                    macroDeviceList, sig, readPid, idx, fault, cmds, target,
                    pauseFrom, resumeFrom, pausedBy, sentPause, sentResume >>

\* removeDevice (lines 1321-1352) raises before end(): --remove without a name
\* passes name = True to readJson, and a name whose file is gone cannot be opened
removeRaises(c) == mode[c] = "remove" /\ arg[c] \notin deviceDir

\* the shells (addKey lines 912-969, newDevice lines 1285-1319, removeDevice
\* lines 1321-1352) do their edit and call end()
CFinish(c) ==
    /\ Alive(c) /\ pc[c] = "shell"
    /\ UNCHANGED ledgerVars
    /\ IF removeRaises(c)
       THEN Raise(c, "shell") /\ UNCHANGED deviceDir
       ELSE /\ deviceDir' = CASE mode[c] = "new"    -> deviceDir \cup {arg[c]}
                              [] mode[c] = "remove" -> deviceDir \ {arg[c]}
                              [] OTHER              -> deviceDir
            /\ end(c)

\* the user interrupts a shell (SIGINT): signal_handler runs end()
CInterrupt(c) ==
    /\ Alive(c) /\ mode[c] \in ShellModes
    /\ UNCHANGED ledgerVars
    /\ end(c)
    /\ UNCHANGED deviceDir

\* sendResume (lines 1454-1466) from --resume (line 1668)
CSendResume(c) ==
    /\ Alive(c) /\ pc[c] = "sendResume"
    /\ UNCHANGED ledgerVars
    /\ pidFile' = IF pidIsStale THEN NoPid ELSE pidFile
    /\ sig' = IF pidIsLive THEN sigAfterKill(pidFile, "USR2") ELSE sig
    /\ resumeFrom' = IF pidIsLive THEN [resumeFrom EXCEPT ![pidFile] = @ \cup {c}] ELSE resumeFrom
    /\ sentResume' = IF pidIsLive THEN [sentResume EXCEPT ![c] = @ + 1] ELSE sentResume
    /\ returnFromMain(c)
    /\ UNCHANGED << deviceDir, mode, arg, fault, cmds, target, pauseFrom, pausedBy, sentPause >>

\* sendStop (lines 1424-1434) from --stop (line 1673)
CSendStop(c) ==
    /\ Alive(c) /\ pc[c] = "sendStop"
    /\ UNCHANGED ledgerVars
    /\ pidFile' = IF pidIsStale THEN NoPid ELSE pidFile
    /\ sig' = IF pidIsLive THEN sigAfterKill(pidFile, "INT") ELSE sig
    /\ returnFromMain(c)
    /\ UNCHANGED << deviceDir, mode, arg, fault, cmds, target, pauseFrom, resumeFrom,
                    pausedBy, sentPause, sentResume >>

(***************************************************************************)
(* The key ledger and the macro device (classes keyLedger, macroDevice).   *)
(* A string is a sequence of tokens: a key code, "+", "-", "HELD", a run   *)
(* of ordinary command text, or one of the characters the code tests for.  *)
(***************************************************************************)
\* clock ticks per second: the resolution of the clock
TicksPerSecond == 2
\* the last clock value of a behaviour
MaxTime == 4
\* key presses in a behaviour
MaxPresses == 2
\* events the kernel queues for the device between two reads
MaxQueue == 6
\* flushed histories waiting in the ledger when processLedger starts
MaxHistories == 2

multiKeyMode == settings.multiKeyMode
forceBackground == settings.forceBackground
backgroundInversion == settings.backgroundInversion
holdThreshold == 1 * TicksPerSecond
flushTimeout == TicksPerSecond \div 2

Keys == {"KEY_A", "KEY_S"}
\* the order in which list.sort() puts the key codes
KeyOrder == <<"KEY_A", "KEY_S">>
rank(k) == CHOOSE i \in 1..Len(KeyOrder) : KeyOrder[i] = k

RECURSIVE insertSorted(_, _)
insertSorted(k, s) ==
    IF s = << >> THEN <<k>>
    ELSE IF rank(k) < rank(Head(s)) THEN <<k>> \o s
    ELSE <<Head(s)>> \o insertSorted(k, Tail(s))

\* a sort() that leaves the list as it is
unsorted(s) == s

\* list.sort() of a list of key codes
RECURSIVE sort(_)
sort(s) == IF s = << >> THEN << >> ELSE insertSorted(Head(s), sort(Tail(s)))

\* a remove that drops nothing
removeNothing(s, k) == s

\* list.remove(k): drops the first occurrence
RECURSIVE remove(_, _)
remove(s, k) ==
    IF s = << >> THEN << >>
    ELSE IF Head(s) = k THEN Tail(s)
    ELSE <<Head(s)>> \o remove(Tail(s), k)

\* str.rstrip(chars) and str.lstrip(chars)
RECURSIVE rstrip(_, _)
rstrip(s, chars) ==
    IF s # << >> /\ s[Len(s)] \in chars THEN rstrip(SubSeq(s, 1, Len(s) - 1), chars)
    ELSE s

RECURSIVE lstrip(_, _)
lstrip(s, chars) ==
    IF s # << >> /\ Head(s) \in chars THEN lstrip(Tail(s), chars) ELSE s

\* str.strip(), str.startswith(t), str.endswith(t)
strip(s) == rstrip(lstrip(s, {" "}), {" "})
startswith(s, t) == s # << >> /\ Head(s) = t
endswith(s, t) == s # << >> /\ s[Len(s)] = t

\* the events device.read() yields: key events and the other events of a
\* packet (scan code, synchronisation report); NoEvent is the None of a poll
\* that found nothing queued
keyEvent(k, st, t) == [type |-> "EV_KEY", keycode |-> k, keystate |-> st, ts |-> t]
otherEvent(ty, t) == [type |-> ty, keycode |-> "", keystate |-> "", ts |-> t]
NoEvent == otherEvent("None", 0)

\* keyLedger.__init__ (lines 109-127); state 0, 1, 2, 3 is rising, falling,
\* holding, stale
newLedger(t) ==
    [ state |-> 3, stateChangeStamp |-> t, peaking |-> FALSE,
      history |-> << >>, histories |-> << >>,
      newKeys |-> << >>, lostKeys |-> << >>, downKeys |-> << >> ]

\* the loop of downKeysStr (lines 153-157): keysParsed += keycode + "+"
RECURSIVE joinKeys(_)
joinKeys(keys) ==
    IF keys = << >> THEN << >> ELSE <<Head(keys), "+">> \o joinKeys(Tail(keys))

\* keyLedger.downKeysStr (lines 151-159)
downKeysStr(L) == rstrip(joinKeys(L.downKeys), {"+"})

\* the timestamp update passes on: the event's, or time.time() where the
\* callee finds None
timestampOf(event) == IF event.type = "None" THEN now ELSE event.ts

\* a stateChange that stamps the time of every call
stateChangeRestamps(L, newState, timestamp) ==
    [L EXCEPT !.state = newState, !.stateChangeStamp = timestamp]

\* a stateChange that never stamps the time
stateChangeKeepsStamp(L, newState, timestamp) == [L EXCEPT !.state = newState]

\* keyLedger.stateChange (lines 161-170)
stateChange(L, newState, timestamp) ==
    IF L.state # newState
    THEN [L EXCEPT !.state = newState, !.stateChangeStamp = timestamp]
    ELSE L

\* a stateDuration that measures from the start of the clock
durationSinceStart(L, timestamp) == timestamp

\* keyLedger.stateDuration (lines 172-177)
stateDuration(L, timestamp) == timestamp - L.stateChangeStamp

\* an addHistoryEntry that joins the entries without the separator
addHistoryEntryUnseparated(L, timestamp) ==
    [L EXCEPT !.history = @ \o downKeysStr(L)]

\* keyLedger.addHistoryEntry (lines 179-198) as update calls it: entry and held
\* are None
addHistoryEntry(L, timestamp) ==
    LET held  == stateDuration(L, timestamp) > holdThreshold
        entry == downKeysStr(L) \o (IF held THEN <<"+", "HELD">> ELSE << >>)
        sep   == IF L.history # << >> THEN <<"-">> ELSE << >>
    IN  [L EXCEPT !.history = @ \o sep \o entry]

\* a flushHistory that leaves the buffer as it is
flushHistoryKeepsBuffer(L) == [L EXCEPT !.histories = @ \o <<L.history>>]

\* a flushHistory that queues the buffer twice
flushHistoryTwice(L) ==
    [L EXCEPT !.histories = @ \o <<L.history, L.history>>, !.history = << >>]

\* keyLedger.flushHistory (lines 201-207)
flushHistory(L) == [L EXCEPT !.histories = @ \o <<L.history>>, !.history = << >>]

\* a popHistory that takes the newest history
popNewest(L) ==
    IF L.histories = << >>
    THEN [value |-> << >>, ledger |-> L]
    ELSE [value |-> L.histories[Len(L.histories)],
          ledger |-> [L EXCEPT !.histories = SubSeq(@, 1, Len(@) - 1)]]

\* keyLedger.popHistory (lines 209-218): the blank string when nothing is queued
popHistory(L) ==
    IF L.histories = << >>
    THEN [value |-> << >>, ledger |-> L]
    ELSE [value |-> Head(L.histories), ledger |-> [L EXCEPT !.histories = Tail(@)]]

\* a flush test that does not look at the buffer
flushDueEvenIfEmpty(L, timestamp) == stateDuration(L, timestamp) > flushTimeout

\* the test of line 321: the Stale state has outlasted flushTimeout and the
\* history buffer is not the empty string
flushDue(L, timestamp) ==
    stateDuration(L, timestamp) > flushTimeout /\ L.history # << >>

\* the release of a key the ledger does not track (lines 264-267)
isUntrackedUp(L, event) ==
    /\ event.type = "EV_KEY" /\ event.keystate = "key_up"
    /\ event.keycode \notin Range(L.downKeys)

\* a ledger that takes every release for the release of a tracked key
lostKeysTrusting(L, event) ==
    IF event.type = "EV_KEY" /\ event.keystate = "key_up"
    THEN <<event.keycode>> ELSE << >>

\* the lostKeys of an event (lines 259-263)
lostKeysOf(L, event) ==
    IF /\ event.type = "EV_KEY" /\ event.keystate = "key_up"
       /\ event.keycode \in Range(L.downKeys)
    THEN <<event.keycode>> ELSE << >>

\* one iteration of the loop of keyLedger.update (lines 228-323); flushed is
\* the iteration's contribution to flushedHistory, warning whether the
\* iteration printed "Untracked key ... released."
updateEvent(L0, event) ==
    LET timestamp == timestampOf(event)
        isKey == event.type = "EV_KEY"
        known == event.keycode \in Range(L0.downKeys)
        new   == IF isKey /\ event.keystate \in {"key_down", "key_hold"} /\ ~known
                 THEN <<event.keycode>> ELSE << >>
        lost  == lostKeysOf(L0, event)
        warn  == isUntrackedUp(L0, event)
        L     == [L0 EXCEPT !.newKeys = new, !.lostKeys = lost]
    IN  IF new # << >>
        THEN \* rising edge (lines 270-284)
             LET down == L.downKeys \o new
                 L1 == [L EXCEPT !.downKeys = IF multiKeyMode = "combination"
                                              THEN sort(down) ELSE down,
                                 !.peaking = TRUE]
             IN  [ledger |-> stateChange(L1, 0, timestamp), flushed |-> FALSE,
                  warning |-> warn]
        ELSE IF lost # << >>
        THEN \* falling edge (lines 286-301)
             LET L1 == IF L.peaking
                       THEN [addHistoryEntry(L, timestamp) EXCEPT !.peaking = FALSE]
                       ELSE L
                 L2 == [L1 EXCEPT !.downKeys = remove(@, lost[1])]
             IN  [ledger |-> stateChange(L2, 1, timestamp), flushed |-> FALSE,
                  warning |-> warn]
        ELSE IF L.downKeys # << >>
        THEN \* holding (lines 304-311)
             [ledger |-> stateChange(L, 2, timestamp), flushed |-> FALSE,
              warning |-> warn]
        ELSE \* stale (lines 314-323)
             LET L1 == stateChange(L, 3, timestamp)
             IN  IF flushDue(L1, timestamp)
                 THEN [ledger |-> flushHistory(L1), flushed |-> TRUE, warning |-> warn]
                 ELSE [ledger |-> L1, flushed |-> FALSE, warning |-> warn]

\* keyLedger.update (lines 220-326): the events in order.  The result r of an
\* iteration is drawn from a singleton set, which fixes its value before the
\* next iteration uses it
RECURSIVE update(_, _, _)
update(L, events, flushedHistory) ==
    IF events = << >>
    THEN [ledger |-> L, flushed |-> flushedHistory]
    ELSE CHOOSE result \in
             { update(r.ledger, Tail(events), flushedHistory \/ r.flushed) :
                 r \in {updateEvent(L, Head(events))} } : TRUE

\* the LEDs of a keyboard
Leds == {"LED_NUML", "LED_CAPSL"}

\* a layer file as readJson (lines 684-695) returns it: the bindings, the
\* "vars" and the "leds" of the layer; leds is << >> in a file without the
\* property and <<set>> in a file with it
layerDoc(bindings, varDefs, ledsProp) ==
    [keys |-> bindings, vars |-> varDefs, leds |-> ledsProp]

\* the layer files of layerDir when the daemon starts
layerDir ==
    (<<"default", ".json">> :> layerDoc(
        (<<"KEY_A", "+", "KEY_S">> :> <<"echo hi">>)
        @@ (<<"KEY_S">> :> <<"layer:", "alt">>)
        @@ (<<"KEY_A">> :> <<"echo ", "%", "foo", "%">>)
        @@ (<<"KEY_A", "+", "HELD">> :> <<"echo ", "%", "missing", "%">>)
        @@ (<<"KEY_S", "+", "HELD">> :> <<"echo 100", "%", "%">>)
        @@ (<<"KEY_A", "-", "KEY_S">> :> <<"echo hi", " ", "&">>)
        @@ (<<"KEY_A", "-", "KEY_A">> :> <<"script:", "backup.sh">>)
        @@ (<<"KEY_S", "-", "KEY_A">> :> <<"layer:", "bare">>)
        @@ (<<"KEY_S", "-", "KEY_S">> :> <<"layer:", "fresh">>),
        (<<"foo">> :> <<"hi">>),
        <<{"LED_NUML"}>>))
    @@ (<<"alt", ".json">> :> layerDoc(
        (<<"KEY_A">> :> <<"layer:", "default">>)
        @@ (<<"KEY_S">> :> <<"echo alt">>),
        << >>,
        <<{"LED_CAPSL"}>>))
    @@ (<<"bare", ".json">> :> layerDoc(
        (<<"KEY_A">> :> <<"layer:", "default">>),
        << >>,
        << >>))
    @@ (<<"broken", ".json">> :> layerDoc(<< >>, << >>, << >>))

\* the layer files whose text is not JSON: json.load raises JSONDecodeError,
\* which readJson (lines 690-693) catches, returning the empty document
malformedFiles == {<<"broken", ".json">>}

\* the document createLayer copies: /data/layers/default.json
templateDoc == layerDoc(<<"KEY_A">> :> <<"echo template">>, << >>, <<{}>>)

\* the device as the methods of macroDevice see it
deviceOf(L, layer) ==
    [ledger |-> L, currentLayer |-> layer, cache |-> cache, spawned |-> spawned,
     leds |-> leds, layers |-> layers, error |-> error, processed |-> processed]

\* the daemon writes nothing but the "leds" property of a layer file, and
\* creates a layer file only as a copy of the template: files keeps the "leds"
\* property of every file that exists, the rest of a document is as it was
\* when the file appeared
contentOf(filename) ==
    IF filename \in DOMAIN layerDir THEN layerDir[filename] ELSE templateDoc
ledsOf(dir) == [f \in DOMAIN dir |-> dir[f].leds]

\* the binding a companion's addKey (lines 951-957) writes into a layer file
newMacro == <<"KEY_S", "+", "KEY_A">> :> <<"echo new">>

\* readJson (lines 684-695) of a layer file that exists
readJson(files, filename) ==
    [contentOf(filename) EXCEPT
        !.leds = files[filename],
        !.keys = IF filename \in newMacros THEN newMacro @@ @ ELSE @]

\* writeJson (lines 697-712) of {"leds": []} to a layer file that exists
writeJson(files, filename) == [files EXCEPT ![filename] = <<{}>>]

\* createLayer (lines 741-747): os.path.join drops installDataDir in front of
\* the absolute "/data/layers/default.json"; copyfile raises when that file
\* does not exist
createLayer(dev, filename) ==
    IF rootTemplate
    THEN [dev EXCEPT !.layers = (filename :> templateDoc.leds) @@ @]
    ELSE [dev EXCEPT !.error = "FileNotFoundError"]

\* a setter that keeps the cached document
setCurrentLayerKeepsCache(dev, val) == [dev EXCEPT !.currentLayer = val]

\* the setter of macroDevice.currentLayer (lines 343-350)
setCurrentLayer(dev, val) == [dev EXCEPT !.currentLayer = val, !.cache = << >>]

\* macroDevice.currentLayerJson (lines 352-356): the device after the property
\* was read; its cache holds the document
loadLayerJson(dev) ==
    IF dev.cache = << >>
    THEN [dev EXCEPT !.cache = <<readJson(dev.layers, dev.currentLayer)>>]
    ELSE dev
currentLayerJson(dev) == loadLayerJson(dev).cache[1]

\* macroDevice.setLeds (lines 448-475)
setLeds(dev) ==
    LET d0  == loadLayerJson(dev)
        doc == currentLayerJson(dev)
    IN  IF doc.leds # << >>
        THEN IF capabilities # {}
             THEN [d0 EXCEPT !.leds = doc.leds[1] \cap capabilities]
             ELSE d0
        ELSE IF d0.currentLayer \in malformedFiles
        THEN \* json.load of writeJson (line 705) raises; nothing catches it
             [d0 EXCEPT !.error = "JSONDecodeError"]
        ELSE LET d1 == [d0 EXCEPT !.layers = writeJson(@, d0.currentLayer),
                                  !.cache = << >>]
             IN  IF capabilities = {}
                 THEN [d1 EXCEPT !.error = "KeyError"]
                 ELSE [d1 EXCEPT !.leds = {}]

\* scriptTypes (lines 38-44)
scriptTypes ==
    ("script:" :> "bash ") @@ ("py:" :> "python ") @@ ("py2:" :> "python2 ")
    @@ ("py3:" :> "python3 ") @@ ("exec:" :> "")

\* the loop of parseVars (lines 821-857) over the characters of the command
RECURSIVE parseVarsLoop(_, _, _, _, _, _)
parseVarsLoop(rest, returnStr, escaped, inVar, varName, layerVars) ==
    IF rest = << >> THEN returnStr
    ELSE LET char == Head(rest)
             r == Tail(rest)
         IN  IF escaped
             THEN parseVarsLoop(r, Append(returnStr, char), FALSE, inVar, varName, layerVars)
             ELSE IF char = "\\"
             THEN parseVarsLoop(r, returnStr, TRUE, inVar, varName, layerVars)
             ELSE IF ~inVar /\ char = "%"
             THEN parseVarsLoop(r, returnStr, FALSE, TRUE, varName, layerVars)
             ELSE IF inVar /\ char = "%"
             THEN IF varName \in DOMAIN layerVars
                  THEN parseVarsLoop(r, returnStr \o layerVars[varName], FALSE, FALSE,
                                     << >>, layerVars)
                  ELSE << >>
             ELSE IF inVar
             THEN parseVarsLoop(r, returnStr, FALSE, TRUE, Append(varName, char), layerVars)
             ELSE parseVarsLoop(r, Append(returnStr, char), FALSE, FALSE, varName, layerVars)

\* parseVars (lines 807-860)
parseVars(commandStr, layerJson) ==
    parseVarsLoop(commandStr, << >>, FALSE, FALSE, << >>, layerJson.vars)

\* a sanitize that ignores the settings
sanitizeStripOnly(value) == strip(value)

\* a sanitize that applies backgroundInversion first and forceBackground last
sanitizeForceLast(value) ==
    LET v1 == strip(value)
        v2 == IF backgroundInversion /\ ~endswith(v1, "&")
              THEN v1 \o <<" ", "&">>
              ELSE IF backgroundInversion THEN rstrip(v1, {" ", "&"}) ELSE v1
    IN  IF forceBackground /\ ~endswith(v2, "&") THEN v2 \o <<" ", "&">> ELSE v2

\* lines 515-531 of processKeycode: strip, forceBackground, backgroundInversion
sanitize(value) ==
    LET v1 == strip(value)
        v2 == IF forceBackground /\ ~endswith(v1, "&")
              THEN v1 \o <<" ", "&">> ELSE v1
    IN  IF backgroundInversion /\ ~endswith(v2, "&")
        THEN v2 \o <<" ", "&">>
        ELSE IF endswith(v2, "&") /\ backgroundInversion
        THEN rstrip(v2, {" ", "&"}) ELSE v2

\* lines 535-539 of processKeycode: the command of a recognised script type;
\* value.split(':')[-1] is what follows the type
scriptCommand(value) ==
    IF value # << >> /\ Head(value) \in DOMAIN scriptTypes
    THEN <<scriptTypes[Head(value)], "scriptDir/">> \o Tail(value)
    ELSE value

\* lines 501-512 of processKeycode: the layer switch
switchLayer(dev, value) ==
    LET jfile == <<value[Len(value)], ".json">>
        d1 == IF jfile \notin DOMAIN dev.layers THEN createLayer(dev, jfile) ELSE dev
    IN  IF d1.error # "none" THEN d1
        ELSE setLeds(setCurrentLayer(d1, jfile))

\* a processKeycode that runs the history itself as a command
runsKeycode(dev, keycode) ==
    [dev EXCEPT !.processed = Append(@, keycode), !.spawned = Append(@, keycode)]

\* macroDevice.processKeycode (lines 486-549)
processKeycode(dev, keycode) ==
    LET d0  == [loadLayerJson(dev) EXCEPT !.processed = Append(@, keycode)]
        doc == currentLayerJson(dev)
    IN  IF keycode \notin DOMAIN doc.keys THEN d0
        ELSE LET value == parseVars(doc.keys[keycode], doc)
             IN  IF startswith(value, "layer:")
                 THEN switchLayer(d0, value)
                 ELSE [d0 EXCEPT !.spawned = Append(@, scriptCommand(sanitize(value)))]

\* macroDevice.processLedger (lines 477-484); an exception of processKeycode
\* ends the loop
RECURSIVE processLedger(_)
processLedger(dev) ==
    LET pop == popHistory(dev.ledger)
        d1  == [dev EXCEPT !.ledger = pop.ledger]
    IN  IF pop.value = << >> THEN d1
        ELSE CHOOSE result \in
                 { IF d2.error # "none" THEN d2 ELSE processLedger(d2) :
                     d2 \in {processKeycode(d1, pop.value)} } : TRUE

\* macroDevice.read (lines 424-446) with process=True: device.read() raises
\* BlockingIOError when no event is queued
\* a read that passes no timer tick to update
eventsWithoutTick(events) == events

\* lines 433-441 of macroDevice.read: the events read, or the timer tick
eventsRead(events) == IF events = << >> THEN <<NoEvent>> ELSE events
afterUpdate(dev, r) ==
    LET d1 == [dev EXCEPT !.ledger = r.ledger]
    IN  IF r.flushed THEN processLedger(d1) ELSE d1
read(dev, events) == afterUpdate(dev, update(dev.ledger, eventsRead(events), FALSE))

\* the histories a read that turns the ledger L into L1 has flushed
flushedBy(L, L1) == SubSeq(L1.histories, Len(L.histories) + 1, Len(L1.histories))

(***************************************************************************)
(* The macroDevice objects of the daemon's registry.  objects[d] is the    *)
(* object of name d in macroDeviceList, or, while no such object is        *)
(* listed, the one macroDevice(d + ".json") would construct next.          *)
(***************************************************************************)
\* objects setupMacroDevices may construct for one name in a behaviour
MaxRebuilds == 1

\* macroDevice.__init__ (lines 358-373): the initial layer, no cached document,
\* a new ledger (device = None is handle[p][d] = "none"); gen counts the
\* objects constructed for the name before this one
newMacroDevice(gen) ==
    [gen |-> gen, currentLayer |-> <<"default", ".json">>, cache |-> << >>,
     ledger |-> newLedger(0)]

\* a setupMacroDevices that constructs a new object for every listed device
objectsRebuilt(objs, list, dir) ==
    [d \in Devices |->
        IF d \in Range(list) THEN newMacroDevice(objs[d].gen + 1) ELSE objs[d]]

\* the objects after setupMacroDevices (lines 585-612): an object removed from
\* the list is garbage, the objects that stay listed are not touched
objectsAfterSetup(objs, list, dir) ==
    [d \in Devices |->
        IF d \in Range(list) \ Range(removeVanished(list, 1, dir))
        THEN newMacroDevice(objs[d].gen + 1)
        ELSE objs[d]]

\* the ledger of a device on which KEY_A was typed and KEY_S is held down, and
\* the same ledger with its history flushed and not yet processed
typedLedger ==
    update(newLedger(0),
           <<keyEvent("KEY_A", "key_down", 0), keyEvent("KEY_A", "key_up", 0),
             keyEvent("KEY_S", "key_down", 0)>>, FALSE).ledger
queuedLedger == flushHistory(typedLedger)

\* states the reads of the main loop bring a listed device to: a layer, its
\* document cached or not, a ledger
usedStates ==
    UNION { { [gen |-> 0, currentLayer |-> l, cache |-> c, ledger |-> L] :
                c \in {<< >>, <<layerDir[l]>>},
                L \in {newLedger(0), typedLedger, queuedLedger} } :
            l \in {<<"default", ".json">>, <<"alt", ".json">>} }

\* the keyboard at rest
KeyboardInit ==
    /\ now = 0 /\ polled = FALSE
    /\ phys = {} /\ queue = << >>
    /\ presses = [k \in Keys |-> 0]
    /\ firstDown = 0 /\ lastUp = 0 /\ bothDown = FALSE
    /\ pressOrder = << >> /\ lastDown = 0 /\ peak = FALSE /\ chordLog = << >>

\* the macro device after macroDevice.__init__ (lines 358-373) and grabDevice
\* (lines 398-410), which ends in setLeds: the default layer is cached and its
\* LEDs are lit
DeviceInit ==
    /\ currentLayer = <<"default", ".json">>
    /\ layers = ledsOf(layerDir)
    /\ cache = <<layerDir[<<"default", ".json">>]>>
    /\ leds = layerDir[<<"default", ".json">>].leds[1] \cap capabilities
    /\ spawned = << >> /\ processed = << >>
    /\ error = "none"
    /\ device = "open"

\* no history is flushed yet
LedgerNew == ledger = newLedger(0) /\ flushedLog = << >> /\ draining = FALSE

\* a keyboard with LEDs, the settings of lines 753-760, no template file
LedgerInit ==
    /\ KeyboardInit
    /\ settings = defaultSettings /\ capabilities = Leds /\ rootTemplate = FALSE
    /\ reportsScan \in BOOLEAN
    /\ SettingsLoaded
    /\ DeviceInit /\ LedgerNew

\* the packet the kernel queues for one key transition: the scan code (on
\* keyboards that report it), the key event, the synchronisation report
packet(k, st, scan) ==
    (IF scan THEN <<otherEvent("EV_MSC", now)>> ELSE << >>)
    \o <<keyEvent(k, st, now), otherEvent("EV_SYN", now)>>

QueueHasRoom == Len(queue) + 3 <= MaxQueue

\* the chord the user completes by releasing a key now
completedChord == [order |-> pressOrder, held |-> now - lastDown > holdThreshold, at |-> now]

\* the key presses so far
RECURSIVE sumOver(_, _)
sumOver(f, S) ==
    IF S = {} THEN 0 ELSE LET x == CHOOSE y \in S : TRUE IN f[x] + sumOver(f, S \ {x})
totalPresses == sumOver(presses, Keys)

\* the user presses key k
KeyDown(k) ==
    /\ k \in Keys \ phys /\ totalPresses < MaxPresses /\ QueueHasRoom
    /\ phys' = phys \cup {k}
    /\ queue' = queue \o packet(k, "key_down", reportsScan)
    /\ presses' = [presses EXCEPT ![k] = @ + 1]
    /\ firstDown' = IF \A j \in Keys : presses[j] = 0 THEN now ELSE firstDown
    /\ bothDown' = (bothDown \/ phys' = Keys)
    /\ pressOrder' = Append(pressOrder, k)
    /\ lastDown' = now
    /\ peak' = TRUE
    /\ UNCHANGED << now, polled, lastUp, chordLog >>
    /\ UNCHANGED << deviceVars, configVars, registryVars, coordVars >>

\* the input core repeats key k, which is held down: no scan code.  The loop
\* polls every loopDelay (0.0167 s), the core repeats a key every 0.033 s: at
\* most one repeat of a key is queued between two reads
KeyRepeat(k) ==
    /\ k \in phys /\ QueueHasRoom
    /\ keyEvent(k, "key_hold", now) \notin Range(queue)
    /\ queue' = queue \o packet(k, "key_hold", FALSE)
    /\ UNCHANGED << now, polled, phys, presses, firstDown, lastUp, bothDown,
                    pressOrder, lastDown, peak, chordLog >>
    /\ UNCHANGED << deviceVars, configVars, registryVars, coordVars >>

\* the user releases key k
KeyUp(k) ==
    /\ k \in phys /\ QueueHasRoom
    /\ phys' = phys \ {k}
    /\ queue' = queue \o packet(k, "key_up", reportsScan)
    /\ lastUp' = now
    /\ pressOrder' = remove(pressOrder, k)
    /\ peak' = FALSE
    /\ chordLog' = IF peak THEN Append(chordLog, completedChord) ELSE chordLog
    /\ UNCHANGED << now, polled, presses, firstDown, bothDown, lastDown >>
    /\ UNCHANGED << deviceVars, configVars, registryVars, coordVars >>

\* readDevices() of one iteration of the main loop (lines 1708-1714)
Poll ==
    /\ error = "none" /\ ~draining
    /\ \E r \in {update(ledger, eventsRead(queue), FALSE)} :
          /\ flushedLog' = flushedLog \o flushedBy(ledger, r.ledger)
          /\ \E dev \in {afterUpdate(deviceOf(ledger, currentLayer), r)} :
                /\ ledger' = dev.ledger
                /\ currentLayer' = dev.currentLayer
                /\ cache' = dev.cache
                /\ spawned' = dev.spawned
                /\ leds' = dev.leds
                /\ layers' = dev.layers
                /\ error' = dev.error
                /\ processed' = dev.processed
    /\ queue' = << >>
    /\ polled' = TRUE
    /\ UNCHANGED << now, phys, presses, firstDown, lastUp, bothDown,
                    pressOrder, lastDown, peak, chordLog, draining >>
    /\ UNCHANGED << configVars, registryVars, coordVars >>

\* the clock advances; the loop has polled at least once in every tick
Tick ==
    /\ now < MaxTime /\ polled
    /\ now' = now + 1
    /\ polled' = FALSE
    /\ UNCHANGED << phys, queue, presses, firstDown, lastUp, bothDown,
                    pressOrder, lastDown, peak, chordLog >>
    /\ UNCHANGED << deviceVars, configVars, registryVars, coordVars >>

\* one iteration of the loop of processLedger (lines 477-484): a history is
\* popped and passed to processKeycode
ProcessHistory ==
    /\ draining /\ error = "none" /\ ledger.histories # << >>
    /\ \E pop \in {popHistory(ledger)} :
       \E dev \in {processKeycode(deviceOf(pop.ledger, currentLayer), pop.value)} :
           /\ ledger' = dev.ledger
           /\ currentLayer' = dev.currentLayer
           /\ cache' = dev.cache
           /\ spawned' = dev.spawned
           /\ leds' = dev.leds
           /\ layers' = dev.layers
           /\ error' = dev.error
           /\ processed' = dev.processed
    /\ UNCHANGED << flushedLog, draining >>
    /\ UNCHANGED << keyboardVars, configVars, registryVars, coordVars >>

\* the last iteration: popHistory returns the blank string and the loop ends
ProcessDone ==
    /\ draining /\ error = "none" /\ ledger.histories = << >>
    /\ ledger' = popHistory(ledger).ledger
    /\ draining' = (popHistory(ledger).value # << >>)
    /\ UNCHANGED << currentLayer, spawned, flushedLog, layers, cache, leds, error,
                    processed >>
    /\ UNCHANGED << keyboardVars, configVars, registryVars, coordVars >>

(***************************************************************************)
(* The specification of the coordinator.                                   *)
(***************************************************************************)
\* no keebie process runs yet; the processes in off are not part of the scenario
CoordInit(off) ==
    /\ pidFile \in {NoPid, OldPid}
    /\ deviceDir = Devices
    /\ holders = [d \in Devices |-> {}]
    /\ status = [p \in Procs |-> IF p \in off THEN "off" ELSE "idle"]
    /\ mode = [p \in Procs |-> IF p \in Daemons THEN "daemon" ELSE "none"]
    /\ arg = [p \in Procs |-> "noname"]
    /\ pc = [p \in Procs |-> "done"]
    /\ devicesAreGrabbed = [p \in Procs |-> FALSE]
    /\ savedPid = [p \in Procs |-> FALSE]
    /\ paused = [p \in Procs |-> FALSE]
    /\ havePaused = [p \in Procs |-> FALSE]
    /\ macroDeviceList = [p \in Procs |-> << >>]
    /\ handle = [p \in Procs |-> NoHandles]
    /\ sig = [p \in Procs |-> {}]
    /\ readPid = [p \in Procs |-> NoPid]
    /\ idx = [p \in Procs |-> 0]
    /\ fault = [p \in Procs |-> "none"]
    /\ cmds = 0
    /\ target = [p \in Procs |-> NoPid]
    /\ pauseFrom = [p \in Procs |-> {}]
    /\ resumeFrom = [p \in Procs |-> {}]
    /\ pausedBy = [p \in Procs |-> {}]
    /\ sentPause = [p \in Procs |-> 0]
    /\ sentResume = [p \in Procs |-> 0]
    /\ objects = [d \in Devices |-> newMacroDevice(0)]
    /\ newMacros = {}

InitWith(off) == CoordInit(off) /\ LedgerInit

Next ==
    \/ \E p \in Daemons : DLaunch(p)
    \/ \E p \in Daemons : DSavePid(p)
    \/ \E p \in Daemons : DSavePidWrite(p)
    \/ \E p \in Daemons : DGetPid(p)
    \/ \E p \in Daemons : DProbe(p)
    \/ \E p \in Daemons : DSavePid2(p)
    \/ \E p \in Daemons : DBind(p)
    \/ \E p \in Daemons : DInitialGrab(p)
    \/ \E p \in Daemons : DLoop(p)
    \/ \E p \in Daemons, runs \in BOOLEAN : DRead(p, runs)
    \/ \E p \in Daemons : DCommandDone(p)
    \/ \E p \in Daemons : DDefaultKill(p)
    \/ \E p \in Daemons : DHandleInt(p)
    \/ \E p \in Daemons : DHandlePause(p)
    \/ \E p \in Daemons : DHandleResume(p)
    \/ \E c \in Companions, m \in CompanionModes, a \in Devices \cup {"noname"} : CLaunch(c, m, a)
    \/ \E c \in Companions : CSendPause(c)
    \/ \E c \in Companions : CPauseReturn(c)
    \/ \E c \in Companions : CGrab(c)
    \/ \E c \in Companions : CFinish(c)
    \/ \E c \in Companions : CInterrupt(c)
    \/ \E c \in Companions : CSendResume(c)
    \/ \E c \in Companions : CSendStop(c)

\* one daemon and two companion invocations
Init == InitWith({"d2"})
Spec == Init /\ [][Next]_vars

\* two daemon instances started side by side, and one companion invocation
InitStart == InitWith({"c2"})
SpecStart == InitStart /\ [][Next]_vars

(***************************************************************************)
(* The specification of one macro device: a keyboard, its ledger and the   *)
(* polls of the main loop.  No process of the coordinator takes a step.    *)
(***************************************************************************)
NextLedger ==
    \/ \E k \in Keys : KeyDown(k)
    \/ \E k \in Keys : KeyRepeat(k)
    \/ \E k \in Keys : KeyUp(k)
    \/ Poll
    \/ Tick

InitLedger == InitWith(Procs) /\ pidFile = NoPid
SpecLedger == InitLedger /\ [][NextLedger]_vars

\* the main loop (lines 1708-1714) never ends and sleeps loopDelay between two
\* polls: the daemon keeps polling, and the clock keeps running up to MaxTime
SpecLedgerLive == SpecLedger /\ WF_vars(Poll) /\ WF_vars(Tick)

\* the same device under either multiKeyMode of settings.json
InitModes ==
    /\ CoordInit(Procs) /\ pidFile = NoPid
    /\ KeyboardInit
    /\ settings \in {s \in settingsPossible :
                        /\ s.forceBackground = defaultSettings.forceBackground
                        /\ s.backgroundInversion = defaultSettings.backgroundInversion}
    /\ capabilities = Leds /\ rootTemplate = FALSE
    /\ reportsScan \in BOOLEAN
    /\ SettingsLoaded
    /\ DeviceInit /\ LedgerNew
SpecModes == InitModes /\ [][NextLedger]_vars

(***************************************************************************)
(* The specification of processLedger: read has flushed histories, and the *)
(* loop of processLedger pops and runs them one by one.  The histories are *)
(* those the default layer binds, and one it does not bind; the device has *)
(* LEDs or none, the template of createLayer exists or not, and the        *)
(* background settings are any settings.json can hold.                     *)
(***************************************************************************)
UnboundHistory == <<"KEY_A", "+", "KEY_S", "+", "HELD">>
HistoryPool == DOMAIN layerDir[<<"default", ".json">>].keys \cup {UnboundHistory}

RECURSIVE seqsUpTo(_, _)
seqsUpTo(S, n) ==
    IF n = 0 THEN {<< >>}
    ELSE LET shorter == seqsUpTo(S, n - 1)
         IN  shorter \cup {Append(q, x) : q \in shorter, x \in S}

InitAction ==
    /\ CoordInit(Procs) /\ pidFile = NoPid
    /\ KeyboardInit
    /\ settings \in {s \in settingsPossible :
                        s.multiKeyMode = defaultSettings.multiKeyMode}
    /\ capabilities \in {{}, Leds}
    /\ rootTemplate \in BOOLEAN
    /\ reportsScan = FALSE
    /\ SettingsLoaded
    /\ DeviceInit
    /\ \E hs \in seqsUpTo(HistoryPool, MaxHistories) :
          /\ ledger = [newLedger(0) EXCEPT !.histories = hs]
          /\ flushedLog = hs
    /\ draining = TRUE

NextAction ==
    \/ ProcessHistory
    \/ ProcessDone

SpecAction == InitAction /\ [][NextAction]_vars

(***************************************************************************)
(* The specification of a daemon whose devices are unplugged while it      *)
(* runs; a companion may stop it.                                          *)
(***************************************************************************)
\* device d is unplugged: the kernel removes the input device, every file open
\* on it fails from now on with OSError (ENODEV), and its grab is gone
Unplug(d) ==
    /\ \E p \in Daemons : Alive(p) /\ handle[p][d] = "open"
    /\ handle' = [p \in Procs |->
                     [e \in Devices |->
                         IF e = d /\ handle[p][e] = "open" THEN "gone" ELSE handle[p][e]]]
    /\ holders' = [holders EXCEPT ![d] = {}]
    /\ UNCHANGED << pidFile, deviceDir, status, mode, arg, pc, devicesAreGrabbed,
                    savedPid, paused, havePaused, macroDeviceList, sig, readPid,
                    idx, fault, cmds, target, pauseFrom, resumeFrom, pausedBy,
                    sentPause, sentResume >>
    /\ UNCHANGED ledgerVars

NextUnplug ==
    \/ \E p \in Daemons : DLaunch(p)
    \/ \E p \in Daemons : DSavePid(p)
    \/ \E p \in Daemons : DSavePidWrite(p)
    \/ \E p \in Daemons : DGetPid(p)
    \/ \E p \in Daemons : DProbe(p)
    \/ \E p \in Daemons : DSavePid2(p)
    \/ \E p \in Daemons : DBind(p)
    \/ \E p \in Daemons : DInitialGrab(p)
    \/ \E p \in Daemons : DLoop(p)
    \/ \E p \in Daemons, runs \in BOOLEAN : DRead(p, runs)
    \/ \E p \in Daemons : DCommandDone(p)
    \/ \E p \in Daemons : DHandleInt(p)
    \/ \E c \in Companions : CLaunch(c, "stop", "noname")
    \/ \E c \in Companions : CSendStop(c)
    \/ \E d \in Devices : Unplug(d)

\* one daemon and one companion invocation
InitUnplug == InitWith({"d2", "c2"}) /\ reportsScan = FALSE
SpecUnplug == InitUnplug /\ [][NextUnplug]_vars

(***************************************************************************)
(* The specification of a running daemon whose settings.json is edited and *)
(* which `keebie --resume` asks to reload it.                              *)
(***************************************************************************)
\* settings.json after an edit: a complete document, or text that is not JSON
editedFiles ==
    {fileFor(st) : st \in settingsPossible}
    \cup {[malformed |-> TRUE, doc |-> emptySettingsDoc]}

\* the user edits settings.json while a daemon runs
EditSettings(file) ==
    /\ \E p \in Daemons : Alive(p)
    /\ file \in editedFiles \ {settingsFile}
    /\ settingsFile' = file
    /\ UNCHANGED << objects, device, newMacros >>
    /\ UNCHANGED << keyboardVars, deviceVars, configVars, coordVars >>

\* getSettings() of main (line 1608) returns
CanLoadSettings == getSettings(settingsFile, settings).error = "none"

NextReload ==
    \/ \E p \in Daemons : DLaunch(p)
    \/ \E p \in Daemons : DSavePid(p)
    \/ \E p \in Daemons : DSavePidWrite(p)
    \/ \E p \in Daemons : DGetPid(p)
    \/ \E p \in Daemons : DProbe(p)
    \/ \E p \in Daemons : DSavePid2(p)
    \/ \E p \in Daemons : DBind(p)
    \/ \E p \in Daemons : DInitialGrab(p)
    \/ \E p \in Daemons : DLoop(p)
    \/ \E p \in Daemons, runs \in BOOLEAN : DRead(p, runs)
    \/ \E p \in Daemons : DCommandDone(p)
    \/ \E p \in Daemons : DHandleResume(p)
    \/ \E c \in Companions : CanLoadSettings /\ CLaunch(c, "resume", "noname")
    \/ \E c \in Companions : CSendResume(c)
    \/ \E file \in editedFiles : EditSettings(file)

\* one daemon and one `keebie --resume`
InitReload == InitWith({"d2", "c2"}) /\ reportsScan = FALSE
SpecReload == InitReload /\ [][NextReload]_vars

(***************************************************************************)
(* The specification of getSettings: settings.json is any of the           *)
(* documents, and the daemon loads it.                                     *)
(***************************************************************************)
\* main (line 1608) and resume (line 1482): getSettings() on the file as it is
GetSettings ==
    /\ error = "none"
    /\ \E r \in {getSettings(settingsFile, settings)} :
          /\ settings' = r.settings
          /\ error' = r.error
    /\ UNCHANGED << capabilities, rootTemplate, reportsScan >>
    /\ UNCHANGED << ledger, currentLayer, spawned, flushedLog, layers, cache, leds,
                    processed, draining >>
    /\ UNCHANGED << keyboardVars, registryVars, coordVars >>

InitSettings ==
    /\ CoordInit(Procs) /\ pidFile = NoPid
    /\ KeyboardInit
    /\ settings = allDefaults
    /\ settingsFile \in settingsFiles
    /\ capabilities = Leds /\ rootTemplate = FALSE /\ reportsScan = FALSE
    /\ DeviceInit /\ LedgerNew

NextSettings == GetSettings

SpecSettings == InitSettings /\ [][NextSettings]_vars

(***************************************************************************)
(* The specification of one macro device from its construction: the        *)
(* device json names any layer file as the initial layer, grabDevice opens *)
(* the device and sets its LEDs, a read flushes histories and processLedger *)
(* runs them.                                                              *)
(***************************************************************************)
\* macroDevice.__init__ (lines 358-373) has run, grabDevice has not
InitGrab ==
    /\ CoordInit(Procs) /\ pidFile = NoPid
    /\ KeyboardInit
    /\ settings = defaultSettings /\ SettingsLoaded
    /\ capabilities \in {{}, Leds}
    /\ rootTemplate = FALSE /\ reportsScan = FALSE
    /\ currentLayer \in DOMAIN layerDir
    /\ layers = ledsOf(layerDir)
    /\ cache = << >> /\ leds = {}
    /\ spawned = << >> /\ processed = << >>
    /\ error = "none"
    /\ device = "none"
    /\ LedgerNew

\* macroDevice.grabDevice (lines 398-410): InputDevice(eventFile), grab(), setLeds()
GrabDevice ==
    /\ device = "none" /\ error = "none"
    /\ device' = "open"
    /\ \E dev \in {setLeds(deviceOf(ledger, currentLayer))} :
          /\ cache' = dev.cache
          /\ leds' = dev.leds
          /\ layers' = dev.layers
          /\ error' = dev.error
    /\ UNCHANGED << ledger, currentLayer, spawned, flushedLog, processed, draining >>
    /\ UNCHANGED << keyboardVars, configVars, objects, settingsFile, newMacros, coordVars >>

\* macroDevice.read (lines 433-444): update has flushed the histories hs, and
\* processLedger starts
FlushHistories(hs) ==
    /\ device = "open" /\ error = "none" /\ ~draining
    /\ flushedLog = << >> /\ hs # << >>
    /\ ledger' = [ledger EXCEPT !.histories = hs]
    /\ flushedLog' = hs
    /\ draining' = TRUE
    /\ UNCHANGED << currentLayer, spawned, layers, cache, leds, error, processed >>
    /\ UNCHANGED << keyboardVars, configVars, registryVars, coordVars >>

NextGrab ==
    \/ GrabDevice
    \/ \E hs \in seqsUpTo(HistoryPool, MaxHistories) : FlushHistories(hs)
    \/ ProcessHistory
    \/ ProcessDone

SpecGrab == InitGrab /\ [][NextGrab]_vars

(***************************************************************************)
(* The specification of the registry: one daemon starts, runs its devices, *)
(* is paused, the configurations in deviceDir are edited meanwhile, and    *)
(* the resume handler reconciles the registry and grabs again.             *)
(***************************************************************************)
\* the cache a read of the main loop leaves in object o when it leaves it in
\* state st: nothing after the setter of currentLayer (lines 343-350), the
\* document as the file has it when currentLayerJson (lines 352-356) loaded
\* it, or the document o had cached when the layer was not set
usedCaches(o, st) ==
    IF st.cache = << >>
    THEN {<< >>}
    ELSE {<<readJson(layers, st.currentLayer)>>}
         \cup (IF st.currentLayer = o.currentLayer /\ o.cache # << >>
               THEN {o.cache} ELSE {})

\* a read of the main loop (lines 653-662) leaves listed device d in state st
RegUse(p, d, st) ==
    /\ Alive(p) /\ pc[p] = "loop" /\ ~paused[p]
    /\ d \in Range(macroDeviceList[p]) /\ handle[p][d] = "open"
    /\ st \in usedStates
    /\ \E c \in usedCaches(objects[d], st) :
          objects' = [objects EXCEPT ![d] = [st EXCEPT !.gen = objects[d].gen, !.cache = c]]
    /\ UNCHANGED << keyboardVars, deviceVars, configVars, device, settingsFile, newMacros,
                    coordVars >>

\* the daemon handles the pause signal of a companion (lines 1468-1476)
RegPause(p) ==
    /\ Alive(p) /\ pc[p] = "loop" /\ ~paused[p]
    /\ pause(p)
    /\ UNCHANGED ledgerVars

\* a companion shell adds or removes the configuration of device d while the
\* daemon is paused (newDevice lines 1285-1319, removeDevice lines 1321-1352)
RegEdit(p, d) ==
    /\ Alive(p) /\ pc[p] = "loop" /\ paused[p]
    /\ d \in deviceDir => objects[d].gen < MaxRebuilds
    /\ deviceDir' = IF d \in deviceDir THEN deviceDir \ {d} ELSE deviceDir \cup {d}
    /\ UNCHANGED << pidFile, holders, status, mode, arg, pc, devicesAreGrabbed,
                    savedPid, paused, havePaused, macroDeviceList, handle, sig, readPid,
                    idx, fault, cmds, target, pauseFrom, resumeFrom, pausedBy,
                    sentPause, sentResume >>
    /\ UNCHANGED ledgerVars

\* a companion's addKey (lines 951-957) writes newMacro into layer file f while
\* the daemon is paused; writeJson (lines 697-712) raises on a file whose text
\* is not JSON
RegAddKey(p, f) ==
    /\ Alive(p) /\ pc[p] = "loop" /\ paused[p]
    /\ f \in DOMAIN layers \ malformedFiles /\ f \notin newMacros
    /\ newMacros' = newMacros \cup {f}
    /\ UNCHANGED << keyboardVars, deviceVars, configVars, objects, device, settingsFile,
                    coordVars >>

\* resume (lines 1485-1488): setupMacroDevices() of the paused daemon
RegSetup(p) ==
    /\ Alive(p) /\ pc[p] = "loop" /\ paused[p]
    /\ macroDeviceList' = [macroDeviceList EXCEPT ![p] = setupMacroDevices(@, deviceDir)]
    /\ handle' = [handle EXCEPT ![p] = handlesAfterSetup(@, macroDeviceList[p], deviceDir)]
    /\ objects' = objectsAfterSetup(objects, macroDeviceList[p], deviceDir)
    /\ pc' = [pc EXCEPT ![p] = "regrab"]
    /\ UNCHANGED << pidFile, deviceDir, holders, status, mode, arg, devicesAreGrabbed,
                    savedPid, paused, havePaused, sig, readPid, idx, fault, cmds,
                    target, pauseFrom, resumeFrom, pausedBy, sentPause, sentResume >>
    /\ UNCHANGED << keyboardVars, deviceVars, configVars, device, settingsFile, newMacros >>

\* a grabDevice that reads the layer file again
objectReloaded(o) == [o EXCEPT !.cache = <<readJson(layers, o.currentLayer)>>]

\* the object after grabDevice (lines 398-410): setLeds reads currentLayerJson
\* (lines 352-356), which loads the file only when no document is cached
objectAfterGrab(o) ==
    [o EXCEPT !.cache = loadLayerJson([currentLayer |-> o.currentLayer,
                                       cache |-> o.cache, layers |-> layers]).cache]

\* grabMacroDevices() at the start (lines 1705-1706) and in resume (lines
\* 1489-1492): every listed device is opened and grabbed, and its setLeds reads
\* the document of its layer
RegGrab(p) ==
    /\ Alive(p) /\ pc[p] \in {"startSleep", "regrab"}
    /\ devicesAreGrabbed' = [devicesAreGrabbed EXCEPT ![p] = TRUE]
    /\ holders' = holdersAfterGrab(p, macroDeviceList[p])
    /\ handle' = [handle EXCEPT ![p] = handlesAfterGrab(@, macroDeviceList[p])]
    /\ objects' = [d \in Devices |->
                      IF d \in Range(macroDeviceList[p])
                      THEN objectAfterGrab(objects[d])
                      ELSE objects[d]]
    /\ paused' = [paused EXCEPT ![p] = FALSE]
    /\ pc' = [pc EXCEPT ![p] = "loop"]
    /\ UNCHANGED << pidFile, deviceDir, status, mode, arg, savedPid, havePaused,
                    macroDeviceList, sig, readPid, idx, fault, cmds, target,
                    pauseFrom, resumeFrom, pausedBy, sentPause, sentResume >>
    /\ UNCHANGED << keyboardVars, deviceVars, configVars, device, settingsFile, newMacros >>

NextRegistry ==
    \/ \E p \in Daemons : DLaunch(p)
    \/ \E p \in Daemons : DSavePid(p)
    \/ \E p \in Daemons : DSavePidWrite(p)
    \/ \E p \in Daemons : DBind(p)
    \/ \E p \in Daemons : RegGrab(p)
    \/ \E p \in Daemons, d \in Devices, st \in usedStates : RegUse(p, d, st)
    \/ \E p \in Daemons : RegPause(p)
    \/ \E p \in Daemons, d \in Devices : RegEdit(p, d)
    \/ \E p \in Daemons, f \in DOMAIN layerDir : RegAddKey(p, f)
    \/ \E p \in Daemons : RegSetup(p)

InitRegistry ==
    /\ CoordInit(Procs \ {"d1"}) /\ pidFile = NoPid
    /\ LedgerInit /\ reportsScan = FALSE
SpecRegistry == InitRegistry /\ [][NextRegistry]_vars

(***************************************************************************)
(* The claims about the coordinator.                                       *)
(***************************************************************************)
\* the daemon has passed startup: it recorded its PID and goes on to grab and loop
PastStartup(p) == Alive(p) /\ pc[p] \in {"bind"} \cup BoundPcs
\* the daemon is in its main loop, Running or Paused
InMainLoop(p) == Alive(p) /\ pc[p] \in {"loop", "read", "inCommand"}

\* C1: when a companion's sendPause() that delivered the pause signal to a live
\* daemon returns, that daemon holds no device grab, whatever it was doing when
\* the signal was sent.
C1_PauseReturnsAfterRelease ==
    [][\A c \in Companions :
          (CPauseReturn(c) /\ sentPause[c] = 1) => grabsOf(target[c]) = {}]_vars

\* C2: no device is grabbed by two processes at once; a companion that paused
\* the daemon calls grabMacroDevices only when no daemon holds a grab, and the
\* daemon grabs again in its resume handler only when no companion holds a grab.
C2_GrabsAlternate ==
    [][/\ \A d \in Devices : Cardinality(holders[d]) <= 1
       /\ \A c \in Companions :
            (CGrab(c) /\ sentPause[c] = 1) => \A p \in Daemons : grabsOf(p) = {}
       /\ \A p \in Daemons :
            (DHandleResume(p) /\ paused[p]) => \A c \in Companions : grabsOf(c) = {}]_vars

\* C3: when the paused daemon handles the resume signal after the companions
\* have released the devices, it ends up holding grabbed exactly the configured
\* devices, whatever was added to or removed from deviceDir while it was paused.
C3_ResumeGrabsConfigured ==
    [][\A p \in Daemons :
          (DHandleResume(p) /\ paused[p] /\ \A c \in Companions : grabsOf(c) = {})
              => grabsOf(p)' = deviceDir]_vars

\* C4: a starting instance whose checkPid finds the recorded PID alive exits
\* with status 0, having opened and grabbed no device and leaving the PID file
\* and every grab as they were; one that finds the recorded PID dead removes the
\* file, then records its own PID and goes on to bind its handlers.
C4_SecondInstanceRefuses ==
    [][\A p \in Daemons :
          /\ (pc[p] = "probe" /\ pc'[p] # "probe" /\ Alive(readPid[p])) =>
                /\ status'[p] = "exit0"
                /\ pidFile' = pidFile
                /\ holders' = holders
                /\ grabsOf(p) = {} /\ handle[p] = NoHandles
          /\ (pc[p] = "probe" /\ pc'[p] # "probe" /\ ~Alive(readPid[p])) =>
                /\ pidFile' = NoPid
                /\ status'[p] = "run" /\ pc'[p] = "savePid2"
          /\ (pc[p] = "savePid2" /\ pc'[p] # "savePid2" /\ pidFile = NoPid) =>
                pc'[p] = "savePid2Write"
          /\ (pc[p] = "savePid2Write" /\ pc'[p] # "savePid2Write") =>
                pidFile' = p /\ savedPid'[p] /\ pc'[p] = "bind"]_vars

\* one instance replaced a stale PID file and runs, the other found it alive and
\* refused
C4_Witness ==
    \E p, q \in Daemons :
        /\ p # q
        /\ status[p] = "exit0" /\ readPid[p] = q /\ fault[p] = "none"
        /\ InMainLoop(q) /\ readPid[q] = OldPid /\ pidFile = q /\ grabsOf(q) = Devices

\* C5: at any time at most one daemon process has recorded its PID and passed
\* startup.
C5_OneDaemonPastStartup ==
    Cardinality({ p \in Daemons : PastStartup(p) }) <= 1

\* C6: a daemon that handles the stop signal in its main loop, Running or
\* Paused, ungrabs only devices it holds and ends with exit status 0, no device
\* grabbed and the PID file removed.
C6_StopTearsDown ==
    [][\A p \in Daemons :
          (DHandleInt(p) /\ InMainLoop(p)) =>
              /\ devicesAreGrabbed[p] => ungrabAllReturns(p)
              /\ status'[p] = "exit0"
              /\ grabsOf(p)' = {}
              /\ pidFile' = NoPid]_vars

\* C7 as stated: a paused daemon returns to Running only on a resume sent by
\* the companion that paused it.
C7_ResumedBySameCompanion ==
    [][\A p \in Daemons :
          (paused[p] /\ status'[p] = "run" /\ ~paused'[p]) =>
              (resumeFrom[p] # {} /\ resumeFrom[p] \subseteq pausedBy[p])]_vars

\* C7 as amended: a paused daemon returns to Running only in its handler of a
\* resume signal that some companion invocation sent; no step of its own main
\* loop clears the flag.
C7_ResumedOnlyByResumeSignal ==
    [][\A p \in Daemons :
          (paused[p] /\ status'[p] = "run" /\ ~paused'[p]) =>
              /\ "USR2" \in sig[p] /\ "USR2" \notin sig'[p]
              /\ resumeFrom[p] # {}]_vars

\* a daemon that a companion paused has handled a resume signal, runs and holds
\* its devices again
C7_Witness ==
    \E p \in Daemons, c \in Companions, r \in Companions :
        /\ InMainLoop(p) /\ ~paused[p] /\ sig[p] = {}
        /\ sentPause[c] = 1 /\ target[c] = p
        /\ sentResume[r] = 1
        /\ grabsOf(p) = Devices

\* C8: a shell companion that delivered a pause signal has delivered exactly one
\* resume signal when it has exited, by end() or by an exception, while the
\* daemon it paused is alive; one that delivered no pause has delivered no resume.
C8_ResumeMatchesPause ==
    \A c \in Companions :
        (/\ mode[c] \in ShellModes
         /\ status[c] \in {"exit0", "crash"}
         /\ (sentPause[c] = 1 => Alive(target[c])))
            => sentResume[c] = sentPause[c]

\* C9: the poll of a device never fails because the pause handler ran inside
\* readDevices' loop: the daemon stays alive, Paused.
C9_PauseSafeMidPoll ==
    \A p \in Daemons : ~(status[p] = "crash" /\ fault[p] = "read")


\* the chord the default layer binds, and the command it is bound to
ChordHistory == <<"KEY_A", "+", "KEY_S">>
BoundCommand == <<"echo hi">>

\* KEY_A and KEY_S were each pressed once, were down together, are both
\* released, and less than holdThreshold passed from the first press to the last
\* release
ChordTyped ==
    /\ \A k \in Keys : presses[k] = 1
    /\ phys = {}
    /\ bothDown
    /\ lastUp - firstDown < holdThreshold

\* C10: after KEY_A and KEY_S were pressed together and released within
\* holdThreshold, the ledger never flushes anything but the one history
\* "KEY_A+KEY_S" (without HELD), the bound command is executed once per flush,
\* and once the loop has polled more than flushTimeout after the last release
\* the history has been flushed: one flush and one execution in all.
C10_ChordRunsOnce ==
    ChordTyped =>
        /\ flushedLog \in {<< >>, <<ChordHistory>>}
        /\ spawned = [i \in 1..Len(flushedLog) |-> BoundCommand]
        /\ ledger.histories = << >>
        /\ (polled /\ queue = << >> /\ now - lastUp > flushTimeout) =>
                flushedLog = <<ChordHistory>>

\* the chord was held for a while, flushed once and its command executed once
C10_Witness ==
    /\ ChordTyped
    /\ lastUp - firstDown > 0
    /\ now - lastUp > flushTimeout + 1
    /\ flushedLog = <<ChordHistory>>
    /\ spawned = <<BoundCommand>>
    /\ ledger.history = << >> /\ ledger.histories = << >>

(***************************************************************************)
(* The claims about the chords the ledger records.                         *)
(***************************************************************************)
\* the chords of a history, in order
RECURSIVE splitChords(_, _)
splitChords(h, cur) ==
    IF h = << >> THEN (IF cur = << >> THEN << >> ELSE <<cur>>)
    ELSE IF Head(h) = "-" THEN <<cur>> \o splitChords(Tail(h), << >>)
    ELSE splitChords(Tail(h), Append(cur, Head(h)))
chordsOf(h) == splitChords(h, << >>)

RECURSIVE chordsOfAll(_)
chordsOfAll(hs) == IF hs = << >> THEN << >> ELSE chordsOf(Head(hs)) \o chordsOfAll(Tail(hs))

\* every chord the ledger has recorded: the flushed histories and the buffer
recordedChords == chordsOfAll(flushedLog) \o chordsOf(ledger.history)
\* the key codes of a recorded chord
keysOfChord(c) == SelectSeq(c, LAMBDA t : t \in Keys)
\* the keys of a set in ascending order
ascending(S) == SelectSeq(KeyOrder, LAMBDA k : k \in S)
\* the ledger has seen every event of the keyboard
AllRead == queue = << >> /\ error = "none"

\* C11: in combination mode a chord is recorded with its keys in ascending
\* order, whatever the order of pressing them; in sequence mode it is recorded
\* with its keys in the order of pressing.
C11_ChordOrder ==
    AllRead =>
        /\ Len(recordedChords) = Len(chordLog)
        /\ \A i \in 1..Len(chordLog) :
              keysOfChord(recordedChords[i]) =
                  IF multiKeyMode = "combination"
                  THEN ascending(Range(chordLog[i].order))
                  ELSE chordLog[i].order

C11_Witness ==
    /\ AllRead /\ multiKeyMode = "sequence" /\ phys = {}
    /\ Len(chordLog) = 1 /\ chordLog[1].order = <<"KEY_S", "KEY_A">>
    /\ recordedChords = << <<"KEY_S", "+", "KEY_A">> >>

C11_WitnessCombination ==
    /\ AllRead /\ multiKeyMode = "combination" /\ phys = {}
    /\ Len(chordLog) = 1 /\ chordLog[1].order = <<"KEY_S", "KEY_A">>
    /\ recordedChords = << <<"KEY_A", "+", "KEY_S">> >>

\* a recorded chord carries the +HELD suffix
isHeld(c) == c # << >> /\ c[Len(c)] = "HELD"

\* C12: a recorded chord carries +HELD if and only if the time from the press
\* that completed it (the ledger's entry into Rising) to the release that
\* recorded it (the entry into Falling) exceeds holdThreshold, whatever key
\* repeats, polls and clock ticks lie in between.
C12_HeldIffLongerThanThreshold ==
    AllRead =>
        /\ Len(recordedChords) = Len(chordLog)
        /\ \A i \in 1..Len(chordLog) : isHeld(recordedChords[i]) <=> chordLog[i].held

C12_Witness ==
    /\ AllRead /\ phys = {}
    /\ Len(chordLog) = 2
    /\ chordLog[1].held /\ ~chordLog[2].held
    /\ isHeld(recordedChords[1]) /\ ~isHeld(recordedChords[2])

(***************************************************************************)
(* The claims about flushing.                                              *)
(***************************************************************************)
\* the events the next read passes to update, and the ledger after the first
\* n of them
nextEvents == eventsRead(queue)
ledgerAfter(n) == update(ledger, SubSeq(nextEvents, 1, n), FALSE).ledger

\* C13: in every step of update (one event or one timer tick) the queue of
\* flushed histories grows only by the buffered history, and only when the
\* ledger is Stale before and after the step, the buffer is not empty and the
\* Stale state has lasted longer than flushTimeout; no step of update shortens
\* the queue, and no step of the keyboard or the clock changes it.
C13_FlushOnlyWhenStale ==
    [][/\ ~Poll => ledger'.histories = ledger.histories \/ ProcessHistory
       /\ \A i \in 1..Len(nextEvents) :
            \A L \in {ledgerAfter(i - 1)} :
              \A r \in {updateEvent(L, nextEvents[i])} :
                 IF r.ledger.histories = L.histories
                 THEN ~r.flushed
                 ELSE /\ r.flushed
                      /\ L.state = 3 /\ r.ledger.state = 3
                      /\ L.history # << >>
                      /\ timestampOf(nextEvents[i]) - L.stateChangeStamp > flushTimeout
                      /\ r.ledger.histories = Append(L.histories, L.history)
                      /\ r.ledger.history = << >>]_vars

C13_Witness ==
    /\ AllRead /\ polled /\ ledger.state = 3
    /\ Len(flushedLog) = 2
    /\ ledger.history = << >>
    /\ now - ledger.stateChangeStamp > flushTimeout

\* the chords of the flushed histories
flushedChords == chordsOfAll(flushedLog)
\* every chord the user completed is in a flushed history
AllFlushed == Len(flushedChords) = Len(chordLog)
\* the flushed histories hold the first chords the user completed, each once
FlushedOnce ==
    /\ \A i \in 1..Len(flushedLog) : flushedLog[i] # << >>
    /\ Len(flushedChords) <= Len(chordLog)
    /\ \A i \in 1..Len(flushedChords) :
          keysOfChord(flushedChords[i]) = ascending(Range(chordLog[i].order))

\* C14: once every completed chord has been flushed, a poll that finds no
\* event queued flushes nothing and runs nothing; the flushed histories hold
\* every completed chord at most once, in the order of completion.
C14_FlushIdempotent ==
    [][/\ (Poll /\ queue = << >> /\ flushedLog # << >> /\ AllFlushed) =>
             /\ flushedLog' = flushedLog
             /\ spawned' = spawned
             /\ processed' = processed
             /\ ledger'.histories = << >>
       /\ FlushedOnce']_vars

C14_Witness ==
    /\ AllRead /\ polled /\ phys = {}
    /\ Len(flushedLog) = 1 /\ AllFlushed
    /\ now - lastUp > flushTimeout + 1

\* all keys are released and the user presses no further key
Quiet == phys = {} /\ totalPresses = MaxPresses
\* the daemon is polling, and the clock runs past the flush of the latest chord
KeepsPolling == error = "none" /\ lastUp + flushTimeout < MaxTime
\* nothing is left to flush
NothingBuffered == queue = << >> /\ ledger.history = << >> /\ AllFlushed
\* no flushed chord was flushed within flushTimeout of its completion
FlushedLate == \A i \in 1..Len(flushedChords) : now - chordLog[i].at > flushTimeout

\* C15: when all keys are released, no further key is pressed and the daemon
\* keeps polling (it has not ended with an exception), the polls, which feed a
\* timer tick when no event is queued, eventually flush every completed
\* chord; and no chord is in a flushed history before flushTimeout has passed
\* since its completion.
C15_EventuallyFlushed ==
    /\ (Quiet /\ KeepsPolling) ~> (NothingBuffered \/ error # "none")
    /\ []FlushedLate

C15_Witness ==
    /\ Quiet /\ KeepsPolling /\ NothingBuffered
    /\ chordLog # << >>
    /\ now = chordLog[Len(chordLog)].at + flushTimeout + 1

(***************************************************************************)
(* The claims about processLedger and processKeycode.                      *)
(***************************************************************************)
\* C16: the histories are passed to processKeycode in the order in which they
\* were flushed; popHistory on an empty queue returns the blank string, which
\* ends the loop, and leaves the ledger as it is.
C16_ProcessedInFlushOrder ==
    [][/\ (processed \o ledger.histories = flushedLog)'
       /\ ProcessHistory =>
             /\ processed' = Append(processed, Head(ledger.histories))
             /\ ledger'.histories = Tail(ledger.histories)
       /\ ProcessDone =>
             /\ popHistory(ledger).value = << >>
             /\ ledger' = ledger /\ processed' = processed /\ ~draining']_vars

C16_Witness ==
    /\ ~draining /\ error = "none"
    /\ Len(flushedLog) = 2 /\ flushedLog[1] # flushedLog[2]
    /\ processed = flushedLog /\ ledger.histories = << >>

\* the history processLedger pops next, the current layer's document and the
\* action it binds to the history
nextHistory == Head(ledger.histories)
currentDoc == currentLayerJson(deviceOf(ledger, currentLayer))
IsBound(h) == h \in DOMAIN currentDoc.keys
\* the variable names of a command without escape characters: what stands
\* between an opening delimiter and the delimiter that follows it
delimiters(cmd) == { n \in 1..Len(cmd) : cmd[n] = "%" }
opening(cmd) ==
    { n \in delimiters(cmd) : Cardinality({m \in delimiters(cmd) : m < n}) % 2 = 0 }
varNames(cmd) ==
    { SubSeq(cmd, p[1] + 1, p[2] - 1) :
        p \in { q \in opening(cmd) \X delimiters(cmd) :
                  /\ q[1] < q[2]
                  /\ \A m \in delimiters(cmd) : ~(q[1] < m /\ m < q[2]) } }
RefersToUndefinedVar(h) ==
    /\ IsBound(h)
    /\ \E name \in varNames(currentDoc.keys[h]) :
          name # << >> /\ name \notin DOMAIN currentDoc.vars

\* C17: processing a history whose action references a non-empty variable name
\* the current layer does not define passes nothing to os.system, whatever
\* forceBackground and backgroundInversion are, and leaves the layer as it is.
C17_UndefinedVarDropsAction ==
    [][(ProcessHistory /\ RefersToUndefinedVar(nextHistory)) =>
          /\ spawned' = spawned
          /\ currentLayer' = currentLayer]_vars

\* what os.system receives for a command text, under the background settings
executed(text) == scriptCommand(sanitize(text))
\* processKeycode is about to run history h in the default layer
RunsInDefault(h) ==
    ProcessHistory /\ nextHistory = h /\ currentLayer = <<"default", ".json">>

\* C18: the binding "echo 100%%" runs "echo 100%": the two adjacent delimiters
\* give one literal delimiter and the action is not aborted; the binding
\* "echo %foo%" runs "echo hi", foo being defined as "hi".
C18_EmptyNameIsLiteralDelimiter ==
    [][/\ RunsInDefault(<<"KEY_S", "+", "HELD">>) =>
             spawned' = Append(spawned, executed(<<"echo 100", "%">>))
       /\ RunsInDefault(<<"KEY_A">>) =>
             spawned' = Append(spawned, executed(<<"echo ", "hi">>))]_vars

\* the action the current layer binds to h is a layer switch; its target file
IsLayerSwitch(h) ==
    IsBound(h) /\ startswith(parseVars(currentDoc.keys[h], currentDoc), "layer:")
targetOf(h) ==
    LET value == parseVars(currentDoc.keys[h], currentDoc)
    IN  <<value[Len(value)], ".json">>

\* C19: processing a history bound to a layer switch passes nothing to
\* os.system, makes the target the current layer, leaves no document of the
\* old layer in the cache, and lights exactly the LEDs of the device that the
\* new layer's "leds" name; no exception ends it.
C19_LayerSwitchAlwaysSwitches ==
    [][(ProcessHistory /\ IsLayerSwitch(nextHistory)) =>
          /\ spawned' = spawned
          /\ error' = "none"
          /\ currentLayer' = targetOf(nextHistory)
          /\ currentLayer' \in DOMAIN layers'
          /\ cache' \in {<< >>, <<readJson(layers', currentLayer')>>}
          /\ layers'[currentLayer'] # << >>
          /\ leds' = layers'[currentLayer'][1] \cap capabilities]_vars

\* the action the current layer binds to h resolves (it names no undefined
\* variable) and is not a layer switch
IsResolvedCommand(h) ==
    IsBound(h) /\ ~RefersToUndefinedVar(h) /\ ~IsLayerSwitch(h)

\* C20: processing a popped history passes exactly one command to os.system
\* when the current layer binds the history to a resolved action that is not a
\* layer switch, and none when the layer does not bind it; in that case the
\* layer, the layer files and the LEDs stay as they are and no exception is
\* raised.
C20_OneSpawnPerCommand ==
    [][ProcessHistory =>
          /\ IsResolvedCommand(nextHistory) =>
                /\ Len(spawned') = Len(spawned) + 1
                /\ SubSeq(spawned', 1, Len(spawned)) = spawned
                /\ error' = "none"
          /\ ~IsBound(nextHistory) =>
                /\ spawned' = spawned
                /\ currentLayer' = currentLayer
                /\ layers' = layers
                /\ leds' = leds
                /\ error' = "none"]_vars

C20_Witness ==
    /\ ~draining /\ error = "none"
    /\ processed = <<UnboundHistory, <<"KEY_A", "+", "KEY_S">>>>
    /\ ledger.histories = << >>
    /\ spawned = <<executed(<<"echo hi">>)>>
    /\ currentLayer = <<"default", ".json">>

(***************************************************************************)
(* The claims about the main loop and the registry of macro devices.       *)
(***************************************************************************)
\* the daemon is at a point of its main loop where it polls devices and runs
\* the handler of a pending signal
PollsAndHandles(p) == Alive(p) /\ pc[p] \in {"loop", "read"}

\* C21: after readDevices has spawned the command of an action, the main loop
\* goes on polling and handling signals whether or not the command has ended:
\* no daemon waits inside os.system, so no pending signal waits for a command.
C21_SpawnNeverStallsLoop ==
    [][\A p \in Daemons :
          /\ (DRead(p, TRUE) /\ status'[p] = "run") => PollsAndHandles(p)'
          /\ (Alive(p) /\ sig[p] # {}) => pc[p] # "inCommand"]_vars

\* process p runs setupMacroDevices in this step: at its launch, or in the
\* resume handler of a paused daemon
Reconciles(p) ==
    \/ p \in Daemons /\ (DLaunch(p) \/ (DHandleResume(p) /\ paused[p]))
    \/ p \in Companions /\ \E m \in CompanionModes, a \in Devices \cup {"noname"} : CLaunch(p, m, a)

\* a list without duplicates
IsInjective(s) == Cardinality(Range(s)) = Len(s)

\* C22: after setupMacroDevices the registry tracks exactly the configured
\* devices, one macro device each: every tracked device whose configuration
\* vanished is gone, however many vanished and wherever they stood in the
\* list, and every configuration not tracked before has one new macro device.
C22_ReconcileMatchesConfig ==
    [][\A p \in Procs :
          Reconciles(p) =>
              /\ Range(macroDeviceList'[p]) = deviceDir
              /\ IsInjective(macroDeviceList'[p])]_vars

\* C23: setupMacroDevices leaves every listed macro device whose configuration
\* still exists untouched: the same object stays in the registry, once, with
\* its current layer, its cached layer document, its ledger (state, down keys,
\* buffered history, queued histories) and its device handle as they were.
C23_ReconcileKeepsTracked ==
    [][\A p \in Daemons :
          RegSetup(p) =>
              \A d \in Range(macroDeviceList[p]) \cap deviceDir :
                  /\ Cardinality({i \in 1..Len(macroDeviceList'[p]) :
                                     macroDeviceList'[p][i] = d}) = 1
                  /\ objects'[d] = objects[d]
                  /\ handle'[p][d] = handle[p][d]]_vars

\* the resume handler has dropped kbd1, whose configuration was removed, and
\* kept kbd2 on layer alt with a typed chord buffered and a history queued
C23_Witness ==
    /\ pc["d1"] = "regrab" /\ macroDeviceList["d1"] = <<"kbd2">>
    /\ objects["kbd1"].gen = 1
    /\ objects["kbd2"].gen = 0
    /\ objects["kbd2"].currentLayer = <<"alt", ".json">>
    /\ objects["kbd2"].cache # << >>
    /\ objects["kbd2"].ledger = queuedLedger
    /\ handle["d1"]["kbd2"] = "closed"

(***************************************************************************)
(* The claims about malformed documents and failing devices.               *)
(***************************************************************************)
\* the document of the current layer is the empty one
LayerIsEmpty == DOMAIN currentDoc.keys = {} /\ currentDoc.leds = << >>

\* C24: a malformed layer file loads as the empty layer, and no step of a
\* device whose current layer it is ends in an exception: grabDevice opens
\* the device and sets its LEDs, and processKeycode finds every history
\* unbound, runs nothing and stays on the layer.
C24_MalformedLayerIsEmpty ==
    [][(currentLayer \in malformedFiles) =>
          /\ LayerIsEmpty
          /\ GrabDevice => (error' = "none" /\ device' = "open")
          /\ ProcessHistory =>
                (error' = "none" /\ spawned' = spawned /\ currentLayer' = currentLayer)]_vars

\* the domain of a setting: the two modes, the booleans, the numbers
inDomain(setting, v) ==
    CASE setting = "multiKeyMode" -> v \in {jsonValue("str", "combination"),
                                            jsonValue("str", "sequence")}
      [] setting \in {"forceBackground", "backgroundInversion"} -> v.type = "bool"
      [] OTHER -> v.type \in {"float", "int"}

\* C25: getSettings never ends in an exception, whether settings.json is
\* malformed, lacks settings or holds values outside their domains, and it
\* decides every setting by itself: a value of the setting's domain is
\* adopted, and a setting without such a value keeps its default.
C25_SettingsValidated ==
    [][(GetSettings /\ settings = allDefaults) =>
          /\ error' = "none"
          /\ \A n \in Range(settingNames) :
                settings'[n] =
                    IF ~settingsFile.malformed /\ inDomain(n, settingsFile.doc[n])
                    THEN pythonValue(n, settingsFile.doc[n])
                    ELSE allDefaults[n]]_vars

\* process p has the device open without holding its grab: its grab() raised
\* OSError, which grabDevice printed
GrabFailed(p, d) == handle[p][d] = "open" /\ p \notin holders[d]
\* process p calls grabMacroDevices in this step
GrabsAll(p) ==
    \/ p \in Daemons /\ (DInitialGrab(p) \/ (DHandleResume(p) /\ paused[p]))
    \/ p \in Companions /\ CGrab(p)

\* C26: a grab that fails is contained to its device: the same call of
\* grabMacroDevices grabs every other listed device that can be grabbed, and
\* the device whose grab failed takes no part in the session: the main loop
\* does not read it, so it produces no action.
C26_GrabFailureContained ==
    [][\A p \in Procs :
          /\ GrabsAll(p) =>
                \A d \in Range(macroDeviceList'[p]) :
                    holders[d] \subseteq {p} => p \in holders'[d]
          /\ \A runs \in BOOLEAN :
                (p \in Daemons /\ DRead(p, runs) /\ idx[p] <= Len(macroDeviceList[p])) =>
                    ~GrabFailed(p, macroDeviceList[p][idx[p]])]_vars

\* the device readDevices reads next in process p
deviceRead(p) == macroDeviceList[p][idx[p]]

\* C27: the read of a device that was unplugged does not end the daemon: the
\* daemon stays alive with its registry, and readDevices goes on to the next
\* device of the list or, after the last one, to the next iteration of the
\* main loop.
C27_UnplugContained ==
    [][\A p \in Daemons, runs \in BOOLEAN :
          (/\ DRead(p, runs)
           /\ idx[p] <= Len(macroDeviceList[p])
           /\ handle[p][deviceRead(p)] = "gone") =>
              /\ status'[p] = "run"
              /\ macroDeviceList'[p] = macroDeviceList[p]
              /\ pc'[p] = IF idx[p] < Len(macroDeviceList[p]) THEN "read" ELSE "loop"]_vars

(***************************************************************************)
(* The specification of a macro device grabbed while keys are held: the    *)
(* ledger starts empty, and the release of such a key is the release of a  *)
(* key the ledger does not track.                                          *)
(***************************************************************************)
InitHeld ==
    /\ CoordInit(Procs) /\ pidFile = NoPid
    /\ now = 0 /\ polled = FALSE
    /\ phys = {"KEY_S"}
    /\ queue = << >>
    /\ presses = [k \in Keys |-> IF k \in phys THEN 1 ELSE 0]
    /\ firstDown = 0 /\ lastUp = 0 /\ bothDown = (phys = Keys)
    /\ pressOrder = ascending(phys) /\ lastDown = 0 /\ peak = FALSE
    /\ chordLog = << >>
    /\ settings = defaultSettings /\ capabilities = Leds /\ rootTemplate = FALSE
    /\ reportsScan \in BOOLEAN
    /\ SettingsLoaded
    /\ DeviceInit /\ LedgerNew
SpecHeld == InitHeld /\ [][NextLedger]_vars

\* C28 as stated: an iteration of update whose event is the release of an
\* untracked key prints the warning, leaves downKeys and the history buffer as
\* they were, does not enter Falling, and returns a ledger.
C28_UntrackedUpChangesNothing ==
    [][Poll =>
         \A i \in 1..Len(nextEvents) :
           \A L \in {ledgerAfter(i - 1)} :
             \A r \in {updateEvent(L, nextEvents[i])} :
                isUntrackedUp(L, nextEvents[i]) =>
                   /\ r.warning
                   /\ r.ledger.downKeys = L.downKeys
                   /\ r.ledger.history = L.history
                   /\ r.ledger.state \in {2, 3}]_vars

\* C28, amended: an iteration of update whose event is the release of an
\* untracked key prints the warning, leaves downKeys as it was, appends no
\* entry to the history buffer and does not enter Falling; the ledger goes to
\* Holding when keys are tracked and to Stale when none is, and like every
\* event that finds the ledger Stale for longer than flushTimeout it flushes
\* the history buffer, which is the only change the buffer can see.
C28_UntrackedUpIsATick ==
    [][Poll =>
         \A i \in 1..Len(nextEvents) :
           \A L \in {ledgerAfter(i - 1)} :
             \A r \in {updateEvent(L, nextEvents[i])} :
                isUntrackedUp(L, nextEvents[i]) =>
                   /\ r.warning
                   /\ r.ledger.downKeys = L.downKeys
                   /\ r.ledger.newKeys = << >> /\ r.ledger.lostKeys = << >>
                   /\ r.ledger.peaking = L.peaking
                   /\ r.ledger.state = IF L.downKeys # << >> THEN 2 ELSE 3
                   /\ IF /\ L.downKeys = << >> /\ L.history # << >>
                         /\ nextEvents[i].ts - r.ledger.stateChangeStamp > flushTimeout
                      THEN /\ r.flushed
                           /\ r.ledger.history = << >>
                           /\ r.ledger.histories = Append(L.histories, L.history)
                      ELSE /\ ~r.flushed
                           /\ r.ledger.history = L.history
                           /\ r.ledger.histories = L.histories]_vars

\* KEY_S was held when the device was grabbed and not pressed again; its
\* release has been read, and no recorded chord holds the key: the ledger
\* never tracked it.  The chord of KEY_A typed meanwhile is flushed.
C28_Witness ==
    /\ AllRead /\ polled
    /\ presses["KEY_S"] = 1 /\ "KEY_S" \notin phys
    /\ \A i \in 1..Len(recordedChords) : "KEY_S" \notin Range(recordedChords[i])
    /\ flushedLog = << <<"KEY_A">> >>
    /\ lastUp = now /\ ledger.state = 3 /\ ledger.downKeys = << >>

(***************************************************************************)
(* The claims about the state of the ledger.                               *)
(***************************************************************************)
\* the keys whose most recent event is a press or a repeat, given the set S of
\* such keys before the events
RECURSIVE heldAfter(_, _)
heldAfter(S, events) ==
    IF events = << >> THEN S
    ELSE LET e == Head(events)
         IN  heldAfter(IF e.type # "EV_KEY" THEN S
                       ELSE IF e.keystate \in {"key_down", "key_hold"}
                       THEN S \cup {e.keycode}
                       ELSE S \ {e.keycode},
                       Tail(events))

\* C29: after every prefix of the events a read feeds to the ledger (key
\* events, the other events of their packets, the None of a timer tick)
\* downKeys holds, once each, exactly the keys whose most recent event was a
\* press or a repeat; when every event is read these keys are physically held.
C29_DownKeysAreHeldKeys ==
    [][Poll =>
         /\ \A n \in 0..Len(nextEvents) :
              \A L \in {ledgerAfter(n)} :
                 /\ Range(L.downKeys)
                       = heldAfter(Range(ledger.downKeys), SubSeq(nextEvents, 1, n))
                 /\ IsInjective(L.downKeys)
         /\ ledger'.downKeys = ledgerAfter(Len(nextEvents)).downKeys
         /\ Range(ledger'.downKeys) \subseteq phys']_vars

\* both keys are tracked, KEY_A by its press and KEY_S, held since before the
\* device was grabbed, by a repeat
C29_Witness ==
    /\ AllRead /\ polled
    /\ phys = Keys /\ presses = [k \in Keys |-> 1]
    /\ Range(ledger.downKeys) = Keys /\ Len(ledger.downKeys) = 2

\* the event adds a key the ledger does not track; the event releases a key
\* the ledger tracks
addsKey(L, e) ==
    /\ e.type = "EV_KEY" /\ e.keystate \in {"key_down", "key_hold"}
    /\ e.keycode \notin Range(L.downKeys)
releasesKey(L, e) ==
    /\ e.type = "EV_KEY" /\ e.keystate = "key_up"
    /\ e.keycode \in Range(L.downKeys)

\* the state the priority order gives the ledger L for the event e: 0 rising,
\* 1 falling, 2 holding, 3 stale
stateByPriority(L, e) ==
    IF addsKey(L, e) THEN 0
    ELSE IF releasesKey(L, e) THEN 1
    ELSE IF L.downKeys # << >> THEN 2
    ELSE 3

\* C30: every iteration of update leaves the ledger in the one state the
\* priority order decides (Rising, else Falling, else Holding, else Stale); the
\* state-change timestamp becomes the event's time when the state changes and
\* stays as it is when the state does not change.
C30_StateByPriority ==
    [][Poll =>
         \A i \in 1..Len(nextEvents) :
           \A L \in {ledgerAfter(i - 1)} :
             \A r \in {updateEvent(L, nextEvents[i])} :
                /\ r.ledger.state \in 0..3
                /\ r.ledger.state = stateByPriority(L, nextEvents[i])
                /\ r.ledger.stateChangeStamp =
                      IF r.ledger.state # L.state
                      THEN timestampOf(nextEvents[i])
                      ELSE L.stateChangeStamp]_vars

\* KEY_A was released while KEY_S stayed down: the ledger went through Rising
\* and Falling, recorded the chord, and has been Holding since before the
\* current tick
C30_Witness ==
    /\ AllRead /\ polled
    /\ ledger.state = 2 /\ ledger.stateChangeStamp < now
    /\ ledger.downKeys = <<"KEY_S">> /\ phys = {"KEY_S"}
    /\ ledger.history # << >> /\ presses["KEY_A"] = 1

(***************************************************************************)
(* The claims about the history buffer.                                    *)
(***************************************************************************)
\* the last chord of a history
lastChord(h) == chordsOf(h)[Len(chordsOf(h))]

\* C31: the ledger is peaking exactly from a press to the next release of a
\* tracked key.  The release of a tracked key while peaking appends one chord
\* to the history buffer, after the separator when the buffer holds chords
\* already: the chord of all keys down before the release.  Every other event
\* appends nothing: the buffer stays as it is, or is flushed.
C31_OneChordPerPeak ==
    [][Poll =>
         \A i \in 1..Len(nextEvents) :
           \A L \in {ledgerAfter(i - 1)} :
             \A r \in {updateEvent(L, nextEvents[i])} :
                /\ r.ledger.peaking = \/ addsKey(L, nextEvents[i])
                                      \/ L.peaking /\ ~releasesKey(L, nextEvents[i])
                /\ IF releasesKey(L, nextEvents[i]) /\ L.peaking
                   THEN /\ chordsOf(r.ledger.history)
                              = Append(chordsOf(L.history), lastChord(r.ledger.history))
                        /\ keysOfChord(lastChord(r.ledger.history)) = L.downKeys
                        /\ Len(r.ledger.history) = Len(L.history)
                              + Len(lastChord(r.ledger.history))
                              + (IF L.history = << >> THEN 0 ELSE 1)
                   ELSE r.ledger.history = IF r.flushed THEN << >> ELSE L.history]_vars

\* two chords typed one after the other wait in the buffer, joined by the
\* separator
C31_Witness ==
    /\ AllRead /\ phys = {}
    /\ ledger.history = <<"KEY_A", "-", "KEY_S">>
    /\ ~ledger.peaking

(***************************************************************************)
(* The claims about the background settings.                               *)
(***************************************************************************)
\* the command text the current layer binds to history h, variables expanded
boundText(h) == parseVars(currentDoc.keys[h], currentDoc)
\* the text ends with the detach marker
hasMarker(text) == endswith(strip(text), "&")
DetachMarker == <<" ", "&">>
MarkedHistory == <<"KEY_A", "-", "KEY_S">>

\* C32: with forceBackground alone the command passed to os.system is the
\* bound command with the detach marker, added when the text has none and kept
\* when it has one; with backgroundInversion alone it ends with the marker if
\* and only if the bound text does not; with neither setting it is the bound
\* text, with the marker or without as bound.
C32_OneBackgroundSetting ==
    [][(/\ ProcessHistory /\ IsResolvedCommand(nextHistory)
        /\ ~(forceBackground /\ backgroundInversion)) =>
          /\ Len(spawned') = Len(spawned) + 1
          /\ \A text \in {boundText(nextHistory)} :
             \A cmd \in {spawned'[Len(spawned')]} :
             \A plain \in {scriptCommand(strip(text))} :
                /\ (forceBackground /\ ~backgroundInversion) =>
                      /\ hasMarker(cmd)
                      /\ cmd = IF hasMarker(text) THEN plain ELSE plain \o DetachMarker
                /\ (backgroundInversion /\ ~forceBackground) =>
                      (hasMarker(cmd) <=> ~hasMarker(text))
                /\ (~forceBackground /\ ~backgroundInversion) =>
                      /\ cmd = plain
                      /\ hasMarker(cmd) <=> hasMarker(text)]_vars

\* under backgroundInversion alone "echo hi &" ran without the marker and
\* "echo hi" with it
C32_Witness ==
    /\ backgroundInversion /\ ~forceBackground
    /\ ~draining /\ error = "none"
    /\ processed = <<MarkedHistory, ChordHistory>>
    /\ spawned = << <<"echo hi">>, <<"echo hi">> \o DetachMarker >>

\* C33: with forceBackground and backgroundInversion both enabled the command
\* passed to os.system never ends with the detach marker, whether the bound
\* text has one or not: the inversion removes the marker the text had or
\* forceBackground added.
C33_BothSettingsNeverDetach ==
    [][(/\ ProcessHistory /\ IsResolvedCommand(nextHistory)
        /\ forceBackground /\ backgroundInversion) =>
          /\ Len(spawned') = Len(spawned) + 1
          /\ \A text \in {boundText(nextHistory)} :
             \A cmd \in {spawned'[Len(spawned')]} :
                /\ ~hasMarker(cmd)
                /\ cmd = scriptCommand(rstrip(strip(text), {" ", "&"}))]_vars

\* under both settings "echo hi" and "echo hi &" both ran as "echo hi"
C33_Witness ==
    /\ backgroundInversion /\ forceBackground
    /\ ~draining /\ error = "none"
    /\ processed = <<ChordHistory, MarkedHistory>>
    /\ spawned = << <<"echo hi">>, <<"echo hi">> >>

(***************************************************************************)
(* The claims about the cached layer document.                             *)
(***************************************************************************)
\* the document of the file of the current layer
freshDoc == readJson(layers, currentLayer)
AltLayer == <<"alt", ".json">>

\* C34: every history processLedger pops is looked up in the document of the
\* layer that is current when it is popped: after a layer switch in the same
\* call the cache holds no document of the previous layer, and the histories
\* popped next are resolved by the bindings of the new layer alone.
C34_LookupInNewLayer ==
    [][ProcessHistory =>
          /\ cache \in {<< >>, <<freshDoc>>}
          /\ currentDoc = freshDoc
          /\ (nextHistory \notin DOMAIN freshDoc.keys) =>
                (spawned' = spawned /\ currentLayer' = currentLayer)
          /\ (IsLayerSwitch(nextHistory) /\ error' = "none") =>
                /\ currentLayer' = targetOf(nextHistory)
                /\ cache' \in {<< >>, <<readJson(layers', currentLayer')>>}
          /\ IsResolvedCommand(nextHistory) =>
                spawned' = Append(spawned,
                                  executed(parseVars(freshDoc.keys[nextHistory], freshDoc)))]_vars

\* KEY_S switched from the default layer to alt, and the KEY_S popped next ran
\* the command alt binds to it, not the layer switch of the default layer
C34_Witness ==
    /\ ~draining /\ error = "none"
    /\ processed = << <<"KEY_S">>, <<"KEY_S">> >>
    /\ currentLayer = AltLayer
    /\ spawned = << executed(<<"echo alt">>) >>

(***************************************************************************)
(* The claims about the paused daemon.                                     *)
(***************************************************************************)
\* C35: a daemon that is paused at the top of its main loop stays there: no
\* step takes it into readDevices, and while it is paused no read of a device
\* starts a command.
C35_PausedLoopOnlySleeps ==
    [][\A p \in Daemons :
          /\ (Alive(p) /\ paused[p] /\ pc[p] = "loop") =>
                /\ pc'[p] \notin {"read", "inCommand"}
                /\ cmds' = cmds
                /\ idx'[p] = idx[p]
          /\ \A runs \in BOOLEAN :
                (paused[p] /\ DRead(p, runs)) =>
                    (cmds' = cmds /\ pc'[p] # "inCommand")]_vars

\* the daemon is paused at the top of its loop, its devices are closed and a
\* companion holds their grabs
C35_Witness ==
    /\ Alive("d1") /\ paused["d1"] /\ pc["d1"] = "loop"
    /\ \A d \in Devices : handle["d1"][d] = "closed" /\ holders[d] = {"c1"}

\* C36: the handler of a resume signal in a daemon that is not paused loads
\* the settings and does nothing else: the registry of macro devices, the open
\* devices and the grabs are as before, the daemon stays Running, not paused,
\* where it was in its loop.
C36_ResumeUnpausedOnlyReloads ==
    [][\A p \in Daemons :
          (DHandleResume(p) /\ ~paused[p]) =>
              /\ status'[p] = "run" /\ ~paused'[p]
              /\ pc'[p] = pc[p]
              /\ macroDeviceList'[p] = macroDeviceList[p]
              /\ handle'[p] = handle[p]
              /\ holders' = holders
              /\ devicesAreGrabbed'[p] = devicesAreGrabbed[p]
              /\ settings' = getSettings(settingsFile, settings).settings]_vars

(***************************************************************************)
(* The claims about the queue of flushed histories.                        *)
(***************************************************************************)
\* C37: at no point of an update does the queue of flushed histories hold the
\* empty string, and no flushed history is the empty string; the processLedger
\* that follows a flush pops every queued history: when it returns the queue
\* is empty and every history the read flushed has been processed.
C37_NoBlankHistoryQueued ==
    [][Poll =>
         /\ \A n \in 0..Len(nextEvents) :
              \A L \in {ledgerAfter(n)} :
                 \A i \in 1..Len(L.histories) : L.histories[i] # << >>
         /\ \A i \in 1..Len(flushedLog') : flushedLog'[i] # << >>
         /\ error' = "none" =>
               /\ ledger'.histories = << >>
               /\ processed' = processed \o flushedBy(ledger, ledgerAfter(Len(nextEvents)))]_vars

\* a history was flushed and processed, the queue is empty again, and the
\* ledger has been Stale with an empty buffer for longer than flushTimeout
C37_Witness ==
    /\ AllRead /\ polled
    /\ flushedLog # << >> /\ processed = flushedLog
    /\ ledger.histories = << >> /\ ledger.history = << >>
    /\ ledger.state = 3 /\ now - ledger.stateChangeStamp > flushTimeout + 1

(***************************************************************************)
(* The claims about the exit of a companion.                               *)
(***************************************************************************)
\* companion c exits in this step, by end(), by the return of main or by an
\* exception
Exits(c) == status[c] = "run" /\ status'[c] # "run"
\* the exit of c delivers a resume signal
DeliversResume(c) == Exits(c) /\ sentResume'[c] = sentResume[c] + 1
\* c holds no grab and no open device
HoldsNothing(c) == grabsOf(c) = {} /\ \A d \in Devices : handle[c][d] # "open"

documentOf(o) ==
    currentLayerJson([currentLayer |-> o.currentLayer, cache |-> o.cache,
                      layers |-> layers])
\* the daemon resolves the binding addKey wrote with object o
resolvesNewMacro(o) == DOMAIN newMacro \subseteq DOMAIN documentOf(o).keys
\* the file of the current layer of o has the binding
fileHasNewMacro(o) == o.currentLayer \in newMacros
\* the devices of p that survive reconciliation
survivors(p) == Range(macroDeviceList[p]) \cap deviceDir

\* C39: resume keeps the cached layer document of every device that survives
\* reconciliation: setupMacroDevices and grabMacroDevices leave a cached
\* document as it is, so a binding written into the file of the current layer
\* while the daemon was paused is not resolved after resume; the cached
\* document of an object changes only when its current layer is set, after
\* which it is empty or the document the file has.
C39_ResumeKeepsCachedLayer ==
    [][/\ \A p \in Daemons :
            (RegSetup(p) \/ RegGrab(p)) =>
                \A d \in survivors(p) :
                    objects[d].cache # << >> =>
                        /\ objects'[d].cache = objects[d].cache
                        /\ objects'[d].currentLayer = objects[d].currentLayer
                        /\ resolvesNewMacro(objects[d])' = resolvesNewMacro(objects[d])
       /\ \A d \in Devices :
            (/\ objects[d].cache # << >>
             /\ objects'[d].gen = objects[d].gen
             /\ objects'[d].cache # objects[d].cache) =>
                objects'[d].cache \in
                    {<< >>, <<readJson(layers', objects'[d].currentLayer)>>}]_vars

\* the daemon has resumed and reads kbd1 again; the file of the layer of kbd1
\* has the binding a companion wrote during the pause, and the daemon does not
\* resolve it
C39_Witness ==
    /\ Alive("d1") /\ pc["d1"] = "loop" /\ ~paused["d1"]
    /\ handle["d1"]["kbd1"] = "open" /\ "d1" \in holders["kbd1"]
    /\ objects["kbd1"].gen = 0
    /\ objects["kbd1"].cache # << >>
    /\ fileHasNewMacro(objects["kbd1"])
    /\ ~resolvesNewMacro(objects["kbd1"])

(***************************************************************************)
(* The claims about a pause signal that finds no open device.              *)
(***************************************************************************)
\* daemon p holds no open device: it is paused, or has not done its first grab
HoldsNoOpenDevice(p) == \A d \in Devices : handle[p][d] # "open"

\* C40: a pause signal handled by a daemon that holds no open device leaves
\* the daemon running and Paused, ungrabs and closes nothing, and a daemon
\* that was paused before its initial grab does not do that grab while it is
\* paused.
C40_PauseWithoutDevicesIsSafe ==
    [][\A p \in Daemons :
          /\ (DHandlePause(p) /\ HoldsNoOpenDevice(p)) =>
                /\ Alive(p)' /\ paused'[p]
                /\ handle'[p] = handle[p]
                /\ holders' = holders
          /\ paused[p] => ~DInitialGrab(p)]_vars
====
